---- MODULE Spec2Model ----
(***************************************************************************)
(* State-machine model of the DANR stress engine (danr-zygisk/jni/stress): *)
(* the StressorBase lifecycle and the five generators CPUStressor,         *)
(* MemoryStressor, DiskStressor, NetworkStressor and ThermalStressor; and  *)
(* of the frequency-throttle controller CPUFreqManager (danr-zygisk/jni).  *)
(*                                                                         *)
(* Threads: one control caller (start / stop), the worker thread(s) of the *)
(* generator, and the environment (clock, memory availability, hotplug).   *)
(* The generators share no state, so a behaviour of Spec drives one        *)
(* generator, chosen in Init (variable sel); a behaviour of SpecFreq       *)
(* drives the throttle controller.                                         *)
(***************************************************************************)
EXTENDS Integers, Sequences, FiniteSets, TLC

VARIABLES now, sel, mgr, peer, faulted, caller, lastOp,
          cpu, mem, disk, net, thermal,
          availableMB, chunks, dirFiles, qdisc, sysfs, hist, freq, session

vars == <<now, sel, mgr, peer, faulted, caller, lastOp, cpu, mem, disk, net, thermal,
          availableMB, chunks, dirFiles, qdisc, sysfs, hist, freq, session>>

(* ------------------------------ bounds --------------------------------- *)

\* run durations offered to start()
MaxDuration == 2
\* cap of the CPU generator's completed-operations counter (unit: 1000 ops)
MaxOps == 1
\* chunks one memory run may allocate
MaxChunks == 2
\* write/read cycles one disk run may begin
MaxFiles == 2
\* cap of the disk generator's bytes-written and bytes-read counters (unit: chunks)
MaxBytes == 1
\* runs begun in one behaviour
MaxRuns == 1

Generators == {"cpu", "memory", "disk_io", "network", "thermal"}

Durations == 1..MaxDuration

Min(a, b) == IF a < b THEN a ELSE b

Range(f) == {f[x] : x \in DOMAIN f}

(* ------------------------- StressorBase -------------------------------- *)

\* a remaining time that does not look at the running flag
getRemainingTimeMs_anyFlag(g) ==
    LET remaining == g.durationMs_ - (now - g.startTimeMs_)
    IN  IF remaining > 0 THEN remaining ELSE 0

\* long StressorBase::getRemainingTimeMs() const
getRemainingTimeMs(g) ==
    IF ~g.running_ THEN 0
    ELSE LET remaining == g.durationMs_ - (now - g.startTimeMs_)
         IN  IF remaining > 0 THEN remaining ELSE 0

\* the names of the counters XStressor::getStatus() puts into status.data
StatusKeys(type) ==
    CASE type = "cpu" -> {"threadCount", "loadPercentage", "opsCompleted"}
      [] type = "memory" -> {"allocatedMB", "targetFreeMB", "availableMB"}
      [] type = "disk_io" -> {"bytesWrittenMB", "bytesReadMB", "throughputMBps"}
      [] type = "network" -> {"interface", "bandwidthLimitKbps", "latencyMs",
                              "packetLossPercent", "rulesApplied"}
      [] type = "thermal" -> {"totalCores", "onlineCores", "maxFrequencyPercent",
                              "forceAllCoresOnline"}

\* StressStatus XStressor::getStatus() const: type, isRunning, remainingTimeMs
\* and the names of the counters in data
getStatus(type, g) ==
    [type |-> type, isRunning |-> g.running_,
     remainingTimeMs |-> getRemainingTimeMs(g),
     data |-> IF g.running_ THEN StatusKeys(type) ELSE {}]

\* setDuration(config.durationMs); markStarted();
markStarted(g, durationMs) ==
    [g EXCEPT !.durationMs_ = durationMs, !.startTimeMs_ = now, !.running_ = TRUE]

\* void StressorBase::markStopped()
markStopped(g) == [g EXCEPT !.running_ = FALSE]

\* a loop condition that looks at the deadline only
LoopContinues_deadlineOnly(g, endTime) == now < endTime

\* the worker's loop condition: running_.load() && getCurrentTimeMs() < endTime
LoopContinues(g, endTime) == g.running_ /\ now < endTime

\* a std::thread handle: the thread's position, its locals and whether the
\* handle is still joinable (a finished thread stays joinable until joined)
NoThread == [pc |-> "none", joinable |-> FALSE, endTime |-> 0, sleepMs |-> 0]

NewThread == [pc |-> "init", joinable |-> TRUE, endTime |-> 0, sleepMs |-> 0]

\* history kept for the properties: what the current run was started with,
\* whether stop() was called since, and how the worker left its loop
\* (expired) and what the environment held when the run started (pre); the
\* tc commands issued (tc) and the cores whose online file was written,
\* successfully or not (onlineWrites)
NoHist == [started |-> FALSE, stopCalled |-> FALSE, expired |-> FALSE,
           startedAt |-> 0, duration |-> 0, runs |-> 0,
           pre |-> [sysfs |-> <<>>, rules |-> {}, files |-> {}], tc |-> <<>>,
           stopAt |-> "none", onlineWrites |-> {}]

NewHist(durationMs) == [started |-> TRUE, stopCalled |-> FALSE, expired |-> FALSE,
                        startedAt |-> now, duration |-> durationMs, runs |-> hist.runs + 1,
                        pre |-> [sysfs |-> sysfs, rules |-> qdisc.rules, files |-> dirFiles],
                        tc |-> <<>>, stopAt |-> "none", onlineWrites |-> {}]

\* the worker leaves its loop: by expiry when the flag was still set
LeaveLoop(h, g) == [h EXCEPT !.expired = g.running_]

\* the call that returned last: its result; for a stop(), whether the
\* generator was idle when it was called (fromIdle); for a thermal stop(), the
\* snapshot it wrote back (wrote) and the paths whose write-back failed
NoOp == [op |-> "none", gen |-> "none", result |-> TRUE, fromIdle |-> FALSE,
         wrote |-> <<>>, failed |-> {}]

Returned(op, gen, result) == [NoOp EXCEPT !.op = op, !.gen = gen, !.result = result]

\* destroying or overwriting a joinable std::thread calls std::terminate, which
\* ends the process: the model records the fault (faulted) and keeps the state
\* the faulting call found; no action is enabled afterwards
AnyJoinable(threads) == \E i \in DOMAIN threads : threads[i].joinable

\* a second client thread, here with no call in progress
NoPeer == [pc |-> "none"]

\* the control thread: where it is inside stop(), and stop()'s locals
CallerInit == [pc |-> "idle", wasRunning |-> FALSE, toFree |-> <<>>, fromIdle |-> FALSE]

CallerIdle == ~faulted /\ caller.pc = "idle"

\* the generator is idle: its flag is clear and no worker handle is joinable
Idle(g, threads) == ~g.running_ /\ ~AnyJoinable(threads)

\* stop() is entered: bool wasRunning = isRunning();
EnterStop(g, threads) == [pc |-> "join", wasRunning |-> g.running_, toFree |-> <<>>,
                          fromIdle |-> Idle(g, threads)]

\* stop() returns
StopReturn(gen) == [Returned("stop", gen, TRUE) EXCEPT !.fromIdle = caller.fromIdle]

\* the caller calls start(): a call that is rejected (not accepted) or that
\* faults begins no run, the others are bounded by MaxRuns
MayStart(accepted, handles) ==
    /\ CallerIdle
    /\ (accepted /\ ~AnyJoinable(handles)) => hist.runs < MaxRuns

\* a run is in progress: its flag is set or a worker thread has not finished
InProgress(g, threads) ==
    g.running_ \/ \E i \in DOMAIN threads : threads[i].pc \notin {"none", "done"}

(* ---------------------------- CPUStressor ------------------------------ *)

DefaultCPUConfig == [threadCount |-> 4, loadPercentage |-> 100, durationMs |-> 300000]

CPUConfigs == [threadCount : {0, 1, 2}, loadPercentage : {50, 100}, durationMs : Durations]

\* const int workMs = 10; const int sleepMs = ...
workMs == 10

\* load percentages offered to start(): from below zero to above one hundred
MaxLoad == 102

LoadConfigs == [threadCount : {1}, loadPercentage : (0 - 2)..MaxLoad, durationMs : {1}]

\* a sleep computed with the quotient rounded up
sleepMs_roundedUp(loadPercentage) ==
    IF loadPercentage < 100
    THEN LET d == IF loadPercentage > 1 THEN loadPercentage ELSE 1
         IN  ((100 - loadPercentage) * workMs + d - 1) \div d
    ELSE 0

\* the operands are non-negative whenever the division is reached, so the
\* truncating division of C++ and \div agree
sleepMs(loadPercentage) ==
    IF loadPercentage < 100
    THEN ((100 - loadPercentage) * workMs) \div (IF loadPercentage > 1 THEN loadPercentage ELSE 1)
    ELSE 0

CPUInit == [running_ |-> FALSE, startTimeMs_ |-> 0, durationMs_ |-> 0,
            config_ |-> DefaultCPUConfig, totalOpsCompleted_ |-> 0,
            workerThreads_ |-> <<>>]

\* start() without its "already running" check
CPUStressor_start_unguarded(config) ==
    /\ MayStart(TRUE, cpu.workerThreads_) /\ sel = "cpu"
    /\ IF AnyJoinable(cpu.workerThreads_)
       THEN /\ faulted' = TRUE
            /\ UNCHANGED <<cpu, hist, lastOp>>
       ELSE /\ cpu' = [markStarted(cpu, config.durationMs) EXCEPT
                          !.config_ = config,
                          !.totalOpsCompleted_ = 0,
                          !.workerThreads_ = [i \in 1..config.threadCount |-> NewThread]]
            /\ hist' = NewHist(config.durationMs)
            /\ lastOp' = Returned("start", "cpu", TRUE)
            /\ UNCHANGED faulted
    /\ UNCHANGED <<now, sel, mgr, peer, freq, session, caller, mem, disk, net, thermal,
                   availableMB, chunks, dirFiles, qdisc, sysfs>>

\* bool CPUStressor::start(const CPUStressConfig& config)
CPUStressor_start(config) ==
    /\ MayStart(~cpu.running_, cpu.workerThreads_) /\ sel = "cpu"
    /\ IF cpu.running_
       THEN /\ lastOp' = Returned("start", "cpu", FALSE)
            /\ UNCHANGED <<cpu, faulted, hist>>
       ELSE IF AnyJoinable(cpu.workerThreads_)
       THEN \* workerThreads_.clear() destroys a joinable std::thread
            /\ faulted' = TRUE
            /\ UNCHANGED <<cpu, hist, lastOp>>
       ELSE /\ UNCHANGED faulted
            /\ cpu' = [markStarted(cpu, config.durationMs) EXCEPT
                          !.config_ = config,
                          !.totalOpsCompleted_ = 0,
                          !.workerThreads_ = [i \in 1..config.threadCount |-> NewThread]]
            /\ hist' = NewHist(config.durationMs)
            /\ lastOp' = Returned("start", "cpu", TRUE)
    /\ UNCHANGED <<now, sel, mgr, peer, freq, session, caller, mem, disk, net, thermal,
                   availableMB, chunks, dirFiles, qdisc, sysfs>>

\* void CPUStressor::workerFunction(int threadId, int coreId): one step of thread i
CPUStressor_workerFunction(i) ==
    /\ ~faulted /\ sel = "cpu"
    /\ i \in DOMAIN cpu.workerThreads_
    /\ LET t == cpu.workerThreads_[i] IN
       \/ /\ t.pc = "init"
          /\ cpu' = [cpu EXCEPT !.workerThreads_[i].pc = "loop",
                                !.workerThreads_[i].endTime = cpu.startTimeMs_ + cpu.durationMs_,
                                !.workerThreads_[i].sleepMs = sleepMs(cpu.config_.loadPercentage)]
          /\ UNCHANGED hist
       \/ /\ t.pc = "loop"
          /\ IF LoopContinues(cpu, t.endTime)
             THEN /\ cpu' = [cpu EXCEPT !.totalOpsCompleted_ = Min(@ + 1, MaxOps)]
                  /\ UNCHANGED hist
             ELSE /\ cpu' = [cpu EXCEPT !.workerThreads_[i].pc = "mark"]
                  /\ hist' = LeaveLoop(hist, cpu)
       \/ /\ t.pc = "mark"
          /\ cpu' = [markStopped(cpu) EXCEPT !.workerThreads_[i].pc = "done"]
          /\ UNCHANGED hist
    /\ UNCHANGED <<now, sel, mgr, peer, freq, session, faulted, caller, lastOp, mem, disk, net, thermal,
                   availableMB, chunks, dirFiles, qdisc, sysfs>>

\* void CPUStressor::stop(): wasRunning = isRunning(); if (wasRunning) markStopped();
CPUStressor_stop ==
    /\ CallerIdle /\ sel = "cpu"
    /\ caller' = EnterStop(cpu, cpu.workerThreads_)
    /\ cpu' = IF cpu.running_ THEN markStopped(cpu) ELSE cpu
    /\ hist' = [hist EXCEPT !.stopCalled = TRUE]
    /\ lastOp' = NoOp
    /\ UNCHANGED <<now, sel, mgr, peer, freq, session, faulted, mem, disk, net, thermal,
                   availableMB, chunks, dirFiles, qdisc, sysfs>>

\* ... for (auto& thread : workerThreads_) if (thread.joinable()) thread.join();
\*     workerThreads_.clear();  -- join blocks until the thread has finished
CPUStressor_stop_join ==
    /\ ~faulted /\ sel = "cpu" /\ caller.pc = "join"
    /\ \A i \in DOMAIN cpu.workerThreads_ : cpu.workerThreads_[i].pc = "done"
    /\ cpu' = [cpu EXCEPT !.workerThreads_ = <<>>]
    /\ caller' = CallerInit
    /\ lastOp' = StopReturn("cpu")
    /\ UNCHANGED <<now, sel, mgr, peer, freq, session, faulted, hist, mem, disk, net, thermal,
                   availableMB, chunks, dirFiles, qdisc, sysfs>>

(* --------------------------- MemoryStressor ---------------------------- *)

\* /proc/meminfo MemAvailable, in MB
MaxAvailMB == 3

DefaultMemoryConfig == [targetFreeMB |-> 100, chunkSizeMB |-> 10, durationMs |-> 300000]

MemoryConfigs == [targetFreeMB : {1}, chunkSizeMB : {1}, durationMs : Durations]

\* configurations with a floor below zero as well
WideMemoryConfigs == [targetFreeMB : {0 - 2, 1}, chunkSizeMB : {1}, durationMs : {MaxDuration}]

\* the worker's locals: the configuration it copied, the availability it read
\* at its last poll (availableMB), what allocateChunk returned at that poll
\* (ptr: "none" when it was not called, "null" for nullptr, "chunk"), and
\* releaseMemory's toFree
MemoryLocals == [targetFreeMB |-> 0, chunkSizeMB |-> 0, toFree |-> <<>>,
                 availableMB |-> 0, ptr |-> "none"]

\* a poll that adds the chunk size to the counter also when allocateChunk failed
Polled_countsFailure(m, avail, ptr) ==
    [m EXCEPT !.workerThread_.availableMB = avail, !.workerThread_.ptr = ptr,
              !.allocatedBytes_ = IF ptr = "null" THEN @ + m.workerThread_.chunkSizeMB
                                  ELSE @]

\* one poll of the worker: the value read and the result of the allocation
Polled(m, avail, ptr) ==
    [m EXCEPT !.workerThread_.availableMB = avail, !.workerThread_.ptr = ptr]

MemoryInit == [running_ |-> FALSE, startTimeMs_ |-> 0, durationMs_ |-> 0,
               config_ |-> DefaultMemoryConfig, allocatedBytes_ |-> 0,
               allocations_ |-> <<>>,
               workerThread_ |-> NoThread @@ MemoryLocals]

\* long MemoryStressor::getAvailableMemoryMB() const: -1 when /proc/meminfo
\* cannot be opened
getAvailableMemoryMB == {availableMB, -1}

\* allocateChunk + memset + mlock + allocations_.push_back + allocatedBytes_.fetch_add:
\* the next chunk of the run is mapped and recorded
AllocateAndRecord(m) ==
    [m EXCEPT !.allocations_ = Append(@, Len(chunks) + 1),
              !.allocatedBytes_ = @ + m.workerThread_.chunkSizeMB]

\* releaseMemory() copying the list instead of moving it and not clearing it
TakeAllocations_keep(m) == [m EXCEPT !.allocatedBytes_ = 0]

\* the first half of releaseMemory(): under mutex_, toFree = std::move(allocations_);
\* allocations_.clear(); allocatedBytes_.store(0)
TakeAllocations(m) == [m EXCEPT !.allocations_ = <<>>, !.allocatedBytes_ = 0]

\* the second half of releaseMemory(): munlock / munmap / free of every chunk of
\* toFree; chunks[c] counts how often chunk c has been released
FreeChunks(toFree) ==
    [c \in DOMAIN chunks |->
        chunks[c] + Cardinality({i \in DOMAIN toFree : toFree[i] = c})]

\* bool MemoryStressor::start(const MemoryStressConfig& config)
MemoryStressor_start(config) ==
    /\ MayStart(~mem.running_, <<mem.workerThread_>>) /\ sel = "memory"
    /\ IF mem.running_
       THEN /\ lastOp' = Returned("start", "memory", FALSE)
            /\ UNCHANGED <<mem, faulted, hist, chunks>>
       ELSE IF mem.workerThread_.joinable
       THEN \* workerThread_ = std::thread(...) overwrites a joinable std::thread
            /\ faulted' = TRUE
            /\ UNCHANGED <<mem, hist, lastOp, chunks>>
       ELSE /\ UNCHANGED faulted
            /\ mem' = [markStarted(mem, config.durationMs) EXCEPT
                          !.config_ = config,
                          !.allocatedBytes_ = 0,
                          !.workerThread_ = NewThread @@ MemoryLocals]
            /\ hist' = NewHist(config.durationMs)
            /\ chunks' = <<>>
            /\ lastOp' = Returned("start", "memory", TRUE)
    /\ UNCHANGED <<now, sel, mgr, peer, freq, session, caller, cpu, disk, net, thermal,
                   availableMB, dirFiles, qdisc, sysfs>>

\* the configurations offered to setConfig()
MemorySetConfigs == [targetFreeMB : {1}, chunkSizeMB : {1, 2}, durationMs : {MaxDuration}]

\* void MemoryStressor::setConfig(const MemoryStressConfig& config):
\* lock_guard; config_ = config;
MemoryStressor_setConfig(config) ==
    /\ CallerIdle /\ sel = "memory"
    /\ mem' = [mem EXCEPT !.config_ = config]
    /\ lastOp' = Returned("setConfig", "memory", TRUE)
    /\ UNCHANGED <<now, sel, mgr, peer, freq, session, faulted, caller, hist, cpu, disk, net,
                   thermal, availableMB, chunks, dirFiles, qdisc, sysfs>>

\* void MemoryStressor::workerFunction(): one step of the worker thread
MemoryStressor_workerFunction ==
    /\ ~faulted /\ sel = "memory"
    /\ LET t == mem.workerThread_ IN
       \/ /\ t.pc = "init"
          /\ mem' = [mem EXCEPT !.workerThread_.pc = "phase1",
                                !.workerThread_.targetFreeMB = mem.config_.targetFreeMB,
                                !.workerThread_.chunkSizeMB = mem.config_.chunkSizeMB,
                                !.workerThread_.endTime = mem.startTimeMs_ + mem.durationMs_]
          /\ UNCHANGED <<hist, chunks, availableMB>>
       \/ /\ t.pc = "phase1"
          /\ IF ~LoopContinues(mem, t.endTime)
             THEN /\ mem' = [mem EXCEPT !.workerThread_.pc = "phase2"]
                  /\ UNCHANGED <<chunks, availableMB>>
             ELSE \E avail \in getAvailableMemoryMB :
                    IF avail <= t.targetFreeMB
                    THEN /\ mem' = [Polled(mem, avail, "none") EXCEPT
                                       !.workerThread_.pc = "phase2"]
                         /\ UNCHANGED <<chunks, availableMB>>
                    ELSE \/ /\ Len(chunks) < MaxChunks
                            /\ mem' = Polled(AllocateAndRecord(mem), avail, "chunk")
                            /\ chunks' = Append(chunks, 0)
                            /\ availableMB' = IF availableMB > t.chunkSizeMB
                                              THEN availableMB - t.chunkSizeMB ELSE 0
                         \/ \* allocateChunk returned nullptr: usleep, continue
                            /\ mem' = Polled(mem, avail, "null")
                            /\ UNCHANGED <<chunks, availableMB>>
          /\ UNCHANGED hist
       \/ /\ t.pc = "phase2"
          /\ IF ~LoopContinues(mem, t.endTime)
             THEN /\ mem' = [Polled(mem, 0, "none") EXCEPT !.workerThread_.pc = "mark"]
                  /\ hist' = LeaveLoop(hist, mem)
                  /\ UNCHANGED <<chunks, availableMB>>
             ELSE /\ UNCHANGED hist
                  /\ \E avail \in getAvailableMemoryMB :
                       IF avail > t.targetFreeMB + t.chunkSizeMB
                       THEN \/ /\ Len(chunks) < MaxChunks
                               /\ mem' = Polled(AllocateAndRecord(mem), avail, "chunk")
                               /\ chunks' = Append(chunks, 0)
                               /\ availableMB' = IF availableMB > t.chunkSizeMB
                                                 THEN availableMB - t.chunkSizeMB ELSE 0
                            \/ \* allocateChunk returned nullptr: nothing is recorded
                               /\ mem' = Polled(mem, avail, "null")
                               /\ UNCHANGED <<chunks, availableMB>>
                       ELSE /\ mem' = Polled(mem, avail, "none")
                            /\ UNCHANGED <<chunks, availableMB>>
       \/ /\ t.pc = "mark"
          /\ mem' = [markStopped(mem) EXCEPT !.workerThread_.pc = "release"]
          /\ UNCHANGED <<hist, chunks, availableMB>>
       \/ /\ t.pc = "release"
          /\ mem' = [TakeAllocations(mem) EXCEPT !.workerThread_.pc = "free",
                                                 !.workerThread_.toFree = mem.allocations_]
          /\ UNCHANGED <<hist, chunks, availableMB>>
       \/ /\ t.pc = "free"
          /\ chunks' = FreeChunks(t.toFree)
          /\ availableMB' = Min(availableMB + Len(t.toFree) * t.chunkSizeMB, MaxAvailMB)
          /\ mem' = [mem EXCEPT !.workerThread_.pc = "done", !.workerThread_.toFree = <<>>]
          /\ UNCHANGED hist
    /\ UNCHANGED <<now, sel, mgr, peer, freq, session, faulted, caller, lastOp, cpu, disk, net, thermal,
                   dirFiles, qdisc, sysfs>>

\* void MemoryStressor::stop(): wasRunning = isRunning(); if (wasRunning) markStopped();
MemoryStressor_stop ==
    /\ CallerIdle /\ sel = "memory"
    /\ caller' = EnterStop(mem, <<mem.workerThread_>>)
    /\ mem' = IF mem.running_ THEN markStopped(mem) ELSE mem
    /\ hist' = [hist EXCEPT !.stopCalled = TRUE]
    /\ lastOp' = NoOp
    /\ UNCHANGED <<now, sel, mgr, peer, freq, session, faulted, cpu, disk, net, thermal,
                   availableMB, chunks, dirFiles, qdisc, sysfs>>

\* stop() without the join: it goes on to release while the worker still runs
MemoryStressor_stop_nojoin ==
    /\ ~faulted /\ sel = "memory" /\ caller.pc = "join"
    /\ mem' = [mem EXCEPT !.workerThread_.joinable = FALSE]
    /\ caller' = [caller EXCEPT !.pc = "release"]
    /\ UNCHANGED <<now, sel, mgr, peer, freq, session, faulted, lastOp, hist, cpu, disk, net, thermal,
                   availableMB, chunks, dirFiles, qdisc, sysfs>>

\* ... if (workerThread_.joinable()) workerThread_.join();
MemoryStressor_stop_join ==
    /\ ~faulted /\ sel = "memory" /\ caller.pc = "join"
    /\ mem.workerThread_.joinable => mem.workerThread_.pc = "done"
    /\ mem' = [mem EXCEPT !.workerThread_.joinable = FALSE]
    /\ caller' = [caller EXCEPT !.pc = "release"]
    /\ UNCHANGED <<now, sel, mgr, peer, freq, session, faulted, lastOp, hist, cpu, disk, net, thermal,
                   availableMB, chunks, dirFiles, qdisc, sysfs>>

\* ... releaseMemory(), the part under mutex_
MemoryStressor_stop_release ==
    /\ ~faulted /\ sel = "memory" /\ caller.pc = "release"
    /\ mem' = TakeAllocations(mem)
    /\ caller' = [caller EXCEPT !.pc = "free", !.toFree = mem.allocations_]
    /\ UNCHANGED <<now, sel, mgr, peer, freq, session, faulted, lastOp, hist, cpu, disk, net, thermal,
                   availableMB, chunks, dirFiles, qdisc, sysfs>>

\* ... releaseMemory(), the frees outside the lock; stop() returns
MemoryStressor_stop_free ==
    /\ ~faulted /\ sel = "memory" /\ caller.pc = "free"
    /\ chunks' = FreeChunks(caller.toFree)
    /\ availableMB' = Min(availableMB + Len(caller.toFree) * mem.config_.chunkSizeMB,
                          MaxAvailMB)
    /\ caller' = CallerInit
    /\ lastOp' = StopReturn("memory")
    /\ UNCHANGED <<now, sel, mgr, peer, freq, session, faulted, hist, mem, cpu, disk, net, thermal,
                   dirFiles, qdisc, sysfs>>

\* other processes allocate or free memory: MemAvailable moves
EnvMemory ==
    /\ ~faulted /\ sel = "memory"
    /\ \E a \in 0..MaxAvailMB : a # availableMB /\ availableMB' = a
    /\ UNCHANGED <<now, sel, mgr, peer, freq, session, faulted, caller, lastOp, cpu, mem, disk, net, thermal,
                   chunks, dirFiles, qdisc, sysfs, hist>>

(* ---------------------------- DiskStressor ----------------------------- *)

\* the directories a caller may name: the default one, which exists or can be
\* made, and one that neither exists nor can be made
GoodPath == "/data/local/tmp/danr_stress"

BadPath == "/proc/danr_stress"

\* bool DiskStressor::ensureDirectory(const std::string& path)
ensureDirectory(path) == path = GoodPath

DefaultDiskConfig == [testPath |-> GoodPath, syncWrites |-> FALSE, durationMs |-> 300000]

DiskConfigs == [testPath : {GoodPath, BadPath}, syncWrites : {FALSE}, durationMs : Durations]

\* files of the GoodPath directory: the worker's stress_<n>.tmp, another
\* file whose name holds "stress_" and ".tmp", and one whose name does not
TempFile(n) == <<"stress_.tmp", n>>

LeftoverFile == <<"stress_old.tmp", 0>>

OtherFile == <<"notes.txt", 0>>

\* strstr(entry->d_name, "stress_") && strstr(entry->d_name, ".tmp")
IsTempName(f) == f[1] \in {"stress_.tmp", "stress_old.tmp"}

\* void DiskStressor::cleanup(): the directory after it ran with config_.testPath
cleanup(testPath, files) ==
    IF testPath = GoodPath THEN {f \in files : ~IsTempName(f)} ELSE files

DiskInit == [running_ |-> FALSE, startTimeMs_ |-> 0, durationMs_ |-> 0,
             config_ |-> DefaultDiskConfig, bytesWritten_ |-> 0, bytesRead_ |-> 0,
             workerThread_ |-> NoThread @@ [testPath |-> "", fileCounter |-> 0]]

\* bool DiskStressor::start(const DiskStressConfig& config)
DiskStressor_start(config) ==
    /\ MayStart(~disk.running_ /\ ensureDirectory(config.testPath), <<disk.workerThread_>>)
    /\ sel = "disk_io"
    /\ IF disk.running_
       THEN /\ lastOp' = Returned("start", "disk_io", FALSE)
            /\ UNCHANGED <<disk, faulted, hist>>
       ELSE IF ~ensureDirectory(config.testPath)
       THEN /\ disk' = [disk EXCEPT !.config_ = config]
            /\ lastOp' = Returned("start", "disk_io", FALSE)
            /\ UNCHANGED <<faulted, hist>>
       ELSE IF disk.workerThread_.joinable
       THEN \* workerThread_ = std::thread(...) overwrites a joinable std::thread
            /\ faulted' = TRUE
            /\ UNCHANGED <<disk, hist, lastOp>>
       ELSE /\ UNCHANGED faulted
            /\ disk' = [markStarted(disk, config.durationMs) EXCEPT
                          !.config_ = config,
                          !.bytesWritten_ = 0,
                          !.bytesRead_ = 0,
                          !.workerThread_ = NewThread @@ [testPath |-> "", fileCounter |-> 0]]
            /\ hist' = NewHist(config.durationMs)
            /\ lastOp' = Returned("start", "disk_io", TRUE)
    /\ UNCHANGED <<now, sel, mgr, peer, freq, session, caller, cpu, mem, net, thermal,
                   availableMB, chunks, dirFiles, qdisc, sysfs>>

\* void DiskStressor::workerFunction(): one step of the worker thread
DiskStressor_workerFunction ==
    /\ ~faulted /\ sel = "disk_io"
    /\ LET t == disk.workerThread_
           filePath == TempFile(t.fileCounter - 1)
       IN
       \/ /\ t.pc = "init"
          /\ disk' = [disk EXCEPT !.workerThread_.pc = "loop",
                                  !.workerThread_.testPath = disk.config_.testPath,
                                  !.workerThread_.endTime = disk.startTimeMs_ + disk.durationMs_]
          /\ UNCHANGED <<hist, dirFiles>>
       \/ /\ t.pc = "loop"
          /\ IF LoopContinues(disk, t.endTime)
             THEN /\ t.fileCounter < MaxFiles
                  /\ disk' = [disk EXCEPT !.workerThread_.fileCounter = @ + 1,
                                          !.workerThread_.pc = "open"]
                  /\ UNCHANGED <<hist, dirFiles>>
             ELSE /\ disk' = [disk EXCEPT !.workerThread_.pc = "mark"]
                  /\ hist' = LeaveLoop(hist, disk)
                  /\ UNCHANGED dirFiles
       \/ /\ t.pc = "open"
          /\ UNCHANGED hist
          /\ \/ \* open(O_WRONLY | O_CREAT | O_TRUNC) made the file
                /\ disk' = [disk EXCEPT !.workerThread_.pc = "write"]
                /\ dirFiles' = dirFiles \cup {filePath}
             \/ \* open failed: usleep, continue
                /\ disk' = [disk EXCEPT !.workerThread_.pc = "loop"]
                /\ UNCHANGED dirFiles
       \/ /\ t.pc = "write"
          /\ disk' = [disk EXCEPT !.bytesWritten_ = Min(@ + 1, MaxBytes),
                                  !.workerThread_.pc = "read"]
          /\ UNCHANGED <<hist, dirFiles>>
       \/ /\ t.pc = "read"
          /\ disk' = [disk EXCEPT !.bytesRead_ = Min(@ + 1, MaxBytes),
                                  !.workerThread_.pc = "unlink"]
          /\ UNCHANGED <<hist, dirFiles>>
       \/ /\ t.pc = "unlink"
          /\ dirFiles' = dirFiles \ {filePath}
          /\ disk' = [disk EXCEPT !.workerThread_.pc = "loop"]
          /\ UNCHANGED hist
       \/ /\ t.pc = "mark"
          /\ disk' = [markStopped(disk) EXCEPT !.workerThread_.pc = "cleanup"]
          /\ UNCHANGED <<hist, dirFiles>>
       \/ /\ t.pc = "cleanup"
          /\ dirFiles' = cleanup(disk.config_.testPath, dirFiles)
          /\ disk' = [disk EXCEPT !.workerThread_.pc = "done"]
          /\ UNCHANGED hist
    /\ UNCHANGED <<now, sel, mgr, peer, freq, session, faulted, caller, lastOp, cpu, mem, net, thermal,
                   availableMB, chunks, qdisc, sysfs>>

\* void DiskStressor::stop(): wasRunning = isRunning(); if (wasRunning) markStopped();
DiskStressor_stop ==
    /\ CallerIdle /\ sel = "disk_io"
    /\ caller' = EnterStop(disk, <<disk.workerThread_>>)
    /\ disk' = IF disk.running_ THEN markStopped(disk) ELSE disk
    /\ hist' = [hist EXCEPT !.stopCalled = TRUE, !.stopAt = disk.workerThread_.pc]
    /\ lastOp' = NoOp
    /\ UNCHANGED <<now, sel, mgr, peer, freq, session, faulted, cpu, mem, net, thermal,
                   availableMB, chunks, dirFiles, qdisc, sysfs>>

\* stop() going on to cleanup() without waiting for the worker to finish
DiskStressor_stop_nojoin ==
    /\ ~faulted /\ sel = "disk_io" /\ caller.pc = "join"
    /\ disk' = [disk EXCEPT !.workerThread_.joinable = FALSE]
    /\ caller' = [caller EXCEPT !.pc = "cleanup"]
    /\ UNCHANGED <<now, sel, mgr, peer, freq, session, faulted, lastOp, hist, cpu, mem, net, thermal,
                   availableMB, chunks, dirFiles, qdisc, sysfs>>

\* ... if (workerThread_.joinable()) workerThread_.join();
DiskStressor_stop_join ==
    /\ ~faulted /\ sel = "disk_io" /\ caller.pc = "join"
    /\ disk.workerThread_.joinable => disk.workerThread_.pc = "done"
    /\ disk' = [disk EXCEPT !.workerThread_.joinable = FALSE]
    /\ caller' = [caller EXCEPT !.pc = "cleanup"]
    /\ UNCHANGED <<now, sel, mgr, peer, freq, session, faulted, lastOp, hist, cpu, mem, net, thermal,
                   availableMB, chunks, dirFiles, qdisc, sysfs>>

\* ... cleanup(); stop() returns
DiskStressor_stop_cleanup ==
    /\ ~faulted /\ sel = "disk_io" /\ caller.pc = "cleanup"
    /\ dirFiles' = cleanup(disk.config_.testPath, dirFiles)
    /\ caller' = CallerInit
    /\ lastOp' = StopReturn("disk_io")
    /\ UNCHANGED <<now, sel, mgr, peer, freq, session, faulted, hist, disk, cpu, mem, net, thermal,
                   availableMB, chunks, qdisc, sysfs>>

(* --------------------------- NetworkStressor --------------------------- *)

DefaultNetworkConfig == [bandwidthLimitKbps |-> 0, latencyMs |-> 0,
                         packetLossPercent |-> 0, durationMs |-> 300000]

NetworkConfigs == [bandwidthLimitKbps : {0, 1}, latencyMs : {0, 1},
                   packetLossPercent : {0, 1}, durationMs : Durations]

\* the queuing disciplines on the target interface: the generator's htb root,
\* its class 1:12, its netem as child of the class ("netem", parent 1:12
\* handle 10:) or as the interface root ("netem_root"), and a root qdisc
\* somebody else installed
OwnRules == {"htb", "class", "netem", "netem_root"}

ForeignRule == "foreign"

\* configurations with values below zero as well
WideNetworkConfigs == [bandwidthLimitKbps : {0 - 1, 0, 1}, latencyMs : {0 - 1, 0, 1},
                       packetLossPercent : {0 - 1, 0, 1}, durationMs : {1}]

\* a pipeline whose netem is always attached under class 1:12
TcCommands_childOnly(config) ==
    (IF config.bandwidthLimitKbps > 0 THEN <<"htb", "class">> ELSE <<>>) \o
    (IF config.latencyMs > 0 \/ config.packetLossPercent > 0 THEN <<"netem">> ELSE <<>>)

\* the tc add commands applyTcRules issues, in order, for a configuration
TcCommands(config) ==
    (IF config.bandwidthLimitKbps > 0 THEN <<"htb", "class">> ELSE <<>>) \o
    (IF config.latencyMs > 0 \/ config.packetLossPercent > 0
     THEN (IF config.bandwidthLimitKbps > 0 THEN <<"netem">> ELSE <<"netem_root">>)
     ELSE <<>>)

\* "tc qdisc add ... root" fails while the interface has a root qdisc
RootTaken(rules, cmd, config) ==
    /\ cmd = "htb" \/ cmd = "netem_root"
    /\ rules # {}

\* "tc qdisc del dev <iface> root": removes the root qdisc and all its children
TcDelRoot(rules) == {}

\* removeTcRules() without its "if (!tcRulesApplied_) return"
removeTcRules_always(rules, applied) == <<TcDelRoot(rules), FALSE>>

\* void NetworkStressor::removeTcRules(): <<rules, tcRulesApplied_>> afterwards
removeTcRules(rules, applied) ==
    IF ~applied THEN <<rules, FALSE>> ELSE <<TcDelRoot(rules), FALSE>>

\* the commands of applyTcRules from the n-th on, the first failN-th succeeding:
\* <<rules, tcRulesApplied_, result>>
RECURSIVE RunTc(_, _, _, _, _)
RunTc(cmds, n, failAt, rules, config) ==
    IF n > Len(cmds) THEN <<rules, TRUE, TRUE>>
    ELSE IF n = failAt \/ RootTaken(rules, cmds[n], config)
         THEN IF cmds[n] = "htb"
              THEN <<rules, FALSE, FALSE>>
              ELSE <<removeTcRules(rules, FALSE)[1], FALSE, FALSE>>
         ELSE RunTc(cmds, n + 1, failAt, rules \cup {cmds[n]}, config)

\* the tc command removeTcRules() issues: "del" is "tc qdisc del dev <iface> root"
removeTcIssued(applied) == IF applied THEN <<"del">> ELSE <<>>

\* the tc commands RunTc issues, the failing one included
RECURSIVE RunTcIssued(_, _, _, _, _)
RunTcIssued(cmds, n, failAt, rules, config) ==
    IF n > Len(cmds) THEN <<>>
    ELSE IF n = failAt \/ RootTaken(rules, cmds[n], config)
         THEN IF cmds[n] = "htb"
              THEN <<cmds[n]>>
              ELSE <<cmds[n]>> \o removeTcIssued(FALSE)
         ELSE <<cmds[n]>> \o RunTcIssued(cmds, n + 1, failAt, rules \cup {cmds[n]}, config)

\* the tc commands applyTcRules() issues, in order
applyTcIssued(config, rules, applied, failAt) ==
    removeTcIssued(applied) \o
    (IF config.bandwidthLimitKbps = 0 /\ config.latencyMs = 0 /\ config.packetLossPercent = 0
     THEN <<>>
     ELSE RunTcIssued(TcCommands(config), 1, failAt,
                      removeTcRules(rules, applied)[1], config))

\* bool NetworkStressor::applyTcRules(), the failAt-th command failing (0: none)
applyTcRules(config, rules, applied, failAt) ==
    LET removed == removeTcRules(rules, applied) IN
    IF config.bandwidthLimitKbps = 0 /\ config.latencyMs = 0 /\ config.packetLossPercent = 0
    THEN <<removed[1], TRUE, TRUE>>
    ELSE RunTc(TcCommands(config), 1, failAt, removed[1], config)

NetworkInit == [running_ |-> FALSE, startTimeMs_ |-> 0, durationMs_ |-> 0,
                config_ |-> DefaultNetworkConfig, tcRulesApplied_ |-> FALSE,
                workerThread_ |-> NoThread]

\* checkTcAvailable() answering true whatever the system holds
checkTcAvailable_assumed == TRUE

\* bool NetworkStressor::checkTcAvailable()
checkTcAvailable == qdisc.tc

\* bool NetworkStressor::start(const NetworkStressConfig& config)
NetworkStressor_start(config) ==
    /\ MayStart(~net.running_ /\ checkTcAvailable, <<net.workerThread_>>)
    /\ sel = "network"
    /\ IF net.running_ \/ ~checkTcAvailable
       THEN \* fromIdle: refused for want of tc, not because a run was in progress
            /\ lastOp' = [Returned("start", "network", FALSE) EXCEPT
                              !.fromIdle = ~net.running_]
            /\ UNCHANGED <<net, faulted, hist>>
       ELSE IF net.workerThread_.joinable
       THEN \* workerThread_ = std::thread(...) overwrites a joinable std::thread
            /\ faulted' = TRUE
            /\ UNCHANGED <<net, hist, lastOp>>
       ELSE /\ UNCHANGED faulted
            /\ net' = [markStarted(net, config.durationMs) EXCEPT
                          !.config_ = config,
                          !.workerThread_ = NewThread]
            /\ hist' = NewHist(config.durationMs)
            /\ lastOp' = Returned("start", "network", TRUE)
    /\ UNCHANGED <<now, sel, mgr, peer, freq, session, caller, cpu, mem, disk, thermal,
                   availableMB, chunks, dirFiles, qdisc, sysfs>>

\* void NetworkStressor::workerFunction(): one step of the worker thread
NetworkStressor_workerFunction ==
    /\ ~faulted /\ sel = "network"
    /\ LET t == net.workerThread_ IN
       \/ /\ t.pc = "init"
          /\ net' = [net EXCEPT !.workerThread_.pc = "apply",
                                !.workerThread_.endTime = net.startTimeMs_ + net.durationMs_]
          /\ UNCHANGED <<hist, qdisc>>
       \/ /\ t.pc = "apply"
          /\ \E failAt \in 0..Len(TcCommands(net.config_)) :
               LET r == applyTcRules(net.config_, qdisc.rules, net.tcRulesApplied_, failAt) IN
               /\ qdisc' = [qdisc EXCEPT !.rules = r[1]]
               /\ IF r[3]
                  THEN net' = [net EXCEPT !.tcRulesApplied_ = r[2],
                                          !.workerThread_.pc = "wait"]
                  ELSE \* "Failed to apply tc rules": markStopped(); return
                       net' = [markStopped(net) EXCEPT !.tcRulesApplied_ = r[2],
                                                       !.workerThread_.pc = "done"]
               /\ hist' = [hist EXCEPT !.tc = @ \o applyTcIssued(net.config_, qdisc.rules,
                                                                 net.tcRulesApplied_, failAt)]
       \/ /\ t.pc = "wait"
          /\ ~LoopContinues(net, t.endTime)
          /\ net' = [net EXCEPT !.workerThread_.pc = "mark"]
          /\ hist' = LeaveLoop(hist, net)
          /\ UNCHANGED qdisc
       \/ /\ t.pc = "mark"
          /\ net' = [markStopped(net) EXCEPT !.workerThread_.pc = "remove"]
          /\ UNCHANGED <<hist, qdisc>>
       \/ /\ t.pc = "remove"
          /\ LET r == removeTcRules(qdisc.rules, net.tcRulesApplied_) IN
             /\ qdisc' = [qdisc EXCEPT !.rules = r[1]]
             /\ net' = [net EXCEPT !.tcRulesApplied_ = r[2], !.workerThread_.pc = "done"]
          /\ hist' = [hist EXCEPT !.tc = @ \o removeTcIssued(net.tcRulesApplied_)]
    /\ UNCHANGED <<now, sel, mgr, peer, freq, session, faulted, caller, lastOp, cpu, mem, disk, thermal,
                   availableMB, chunks, dirFiles, sysfs>>

\* void NetworkStressor::stop(): wasRunning = isRunning(); if (wasRunning) markStopped();
NetworkStressor_stop ==
    /\ CallerIdle /\ sel = "network"
    /\ caller' = EnterStop(net, <<net.workerThread_>>)
    /\ net' = IF net.running_ THEN markStopped(net) ELSE net
    /\ hist' = [hist EXCEPT !.stopCalled = TRUE]
    /\ lastOp' = NoOp
    /\ UNCHANGED <<now, sel, mgr, peer, freq, session, faulted, cpu, mem, disk, thermal,
                   availableMB, chunks, dirFiles, qdisc, sysfs>>

\* ... if (workerThread_.joinable()) workerThread_.join();
NetworkStressor_stop_join ==
    /\ ~faulted /\ sel = "network" /\ caller.pc = "join"
    /\ net.workerThread_.joinable => net.workerThread_.pc = "done"
    /\ net' = [net EXCEPT !.workerThread_.joinable = FALSE]
    /\ caller' = [caller EXCEPT !.pc = "remove"]
    /\ UNCHANGED <<now, sel, mgr, peer, freq, session, faulted, lastOp, hist, cpu, mem, disk, thermal,
                   availableMB, chunks, dirFiles, qdisc, sysfs>>

\* ... removeTcRules(); stop() returns
NetworkStressor_stop_remove ==
    /\ ~faulted /\ sel = "network" /\ caller.pc = "remove"
    /\ LET r == removeTcRules(qdisc.rules, net.tcRulesApplied_) IN
       /\ qdisc' = [qdisc EXCEPT !.rules = r[1]]
       /\ net' = [net EXCEPT !.tcRulesApplied_ = r[2]]
    /\ hist' = [hist EXCEPT !.tc = @ \o removeTcIssued(net.tcRulesApplied_)]
    /\ caller' = CallerInit
    /\ lastOp' = StopReturn("network")
    /\ UNCHANGED <<now, sel, mgr, peer, freq, session, faulted, cpu, mem, disk, thermal,
                   availableMB, chunks, dirFiles, sysfs>>

\* the tc binary disappears from the PATH and from /system/bin (checkTcAvailable
\* looks it up anew on every start)
EnvTc ==
    /\ ~faulted /\ sel = "network" /\ CallerIdle
    /\ qdisc.tc
    /\ qdisc' = [qdisc EXCEPT !.tc = FALSE]
    /\ UNCHANGED <<now, sel, mgr, peer, freq, session, faulted, caller, lastOp, hist, cpu, mem, disk, net,
                   thermal, availableMB, chunks, dirFiles, sysfs>>

(* --------------------------- ThermalStressor --------------------------- *)

\* the cpu<n> directories under /sys/devices/system/cpu
Cores == {0, 1}

\* int ThermalStressor::getNumCores() const
getNumCores == Cardinality(Cores)

DefaultThermalConfig == [maxFrequencyPercent |-> 100, forceAllCoresOnline |-> TRUE,
                         durationMs |-> 300000]

\* the configurations offered to start(); the worker's steps do not depend on
\* the length of the run, so one duration is offered
ThermalConfigs == [maxFrequencyPercent : {50, 100}, forceAllCoresOnline : BOOLEAN,
                   durationMs : {MaxDuration}]

\* the per-core control files: /sys/devices/system/cpu/cpu<c>/online,
\* .../cpufreq/scaling_governor and .../cpufreq/scaling_max_freq
OnlinePath(c) == <<"online", c>>

GovPath(c) == <<"scaling_governor", c>>

MaxPath(c) == <<"scaling_max_freq", c>>

SysPaths == {OnlinePath(c) : c \in Cores \ {0}} \cup {GovPath(c) : c \in Cores}
            \cup {MaxPath(c) : c \in Cores}

\* long ThermalStressor::getMaxFrequency(int cpu) const: cpuinfo_max_freq
getMaxFrequency(c) == 5

\* long ThermalStressor::getMinFrequency(int cpu) const: cpuinfo_min_freq
getMinFrequency(c) == 1

\* isCoreOnline() reporting every core online whatever its file holds
isCoreOnline_allOnline(c) == TRUE

\* bool ThermalStressor::isCoreOnline(int cpu) const
isCoreOnline(c) == c = 0 \/ sysfs[OnlinePath(c)] = "1"

\* long targetFreq = minFreq + ((maxFreq - minFreq) * maxFreqPercent) / 100
targetFreq(c, maxFreqPercent) ==
    getMinFrequency(c) + ((getMaxFrequency(c) - getMinFrequency(c)) * maxFreqPercent) \div 100

\* bool ThermalStressor::writeSysFile(path, value): the files after the write,
\* which leaves them as they are when it fails
writeSysFile(files, path, value, ok) ==
    IF ok THEN [files EXCEPT ![path] = value] ELSE files

\* bool ThermalStressor::setCoreOnline(int cpu, bool online), called for each
\* core of cores: the cores whose online file it writes (if (cpu == 0) return)
setCoreOnline(cores) == {c \in cores : c # 0}

\* the value applySettings saves as the core's original scaling_max_freq
SavedMaxFrequency(c) == getMaxFrequency(c)

\* a write-back that leaves the online files alone
restoreSettings_freqOnly(files, settings, failing) ==
    [p \in DOMAIN files |->
        IF p \in DOMAIN settings /\ p \notin failing /\ p[1] # "online"
        THEN settings[p] ELSE files[p]]

\* a write-back that gives up at the first failing write
restoreSettings_abortOnFailure(files, settings, failing) ==
    [p \in DOMAIN files |->
        IF p \in DOMAIN settings /\ failing = {} THEN settings[p] ELSE files[p]]

\* void ThermalStressor::restoreSettings(): the files after every entry of
\* originalSettings_ was written, the writes to the paths of failing failing
restoreSettings(files, settings, failing) ==
    [p \in DOMAIN files |->
        IF p \in DOMAIN settings /\ p \notin failing THEN settings[p] ELSE files[p]]

ThermalInit == [running_ |-> FALSE, startTimeMs_ |-> 0, durationMs_ |-> 0,
                config_ |-> DefaultThermalConfig, originalSettings_ |-> <<>>,
                coresOnline_ |-> 0, totalCores_ |-> 0, mutex_ |-> "free",
                workerThread_ |-> NoThread @@ [writable |-> TRUE]]

\* bool ThermalStressor::start(const ThermalStressConfig& config)
ThermalStressor_start(config) ==
    /\ MayStart(~thermal.running_, <<thermal.workerThread_>>) /\ sel = "thermal"
    /\ IF thermal.running_
       THEN /\ lastOp' = Returned("start", "thermal", FALSE)
            /\ UNCHANGED <<thermal, faulted, hist>>
       ELSE IF thermal.workerThread_.joinable
       THEN \* workerThread_ = std::thread(...) overwrites a joinable std::thread
            /\ faulted' = TRUE
            /\ UNCHANGED <<thermal, hist, lastOp>>
       ELSE /\ UNCHANGED faulted
            /\ thermal' = [markStarted(thermal, config.durationMs) EXCEPT
                              !.config_ = config,
                              !.originalSettings_ = <<>>,
                              !.totalCores_ = getNumCores,
                              !.workerThread_ = NewThread @@ [writable |-> TRUE]]
            /\ hist' = NewHist(config.durationMs)
            /\ lastOp' = Returned("start", "thermal", TRUE)
    /\ UNCHANGED <<now, sel, mgr, peer, freq, session, caller, cpu, mem, disk, net,
                   availableMB, chunks, dirFiles, qdisc, sysfs>>

\* originalSettings_ with the entries of more added (operator[] overwrites)
RememberAll(settings, more) ==
    [p \in DOMAIN settings \cup DOMAIN more |->
        IF p \in DOMAIN more THEN more[p] ELSE settings[p]]

\* void ThermalStressor::applySettings(), first loop: for every core but cpu0 save
\* the online file and write "1" to it: <<files, originalSettings_>> afterwards
forceCoresOnline(files, settings, ok) ==
    LET paths == {OnlinePath(c) : c \in Cores \ {0}} IN
    << [p \in DOMAIN files |->
           IF p \in paths THEN writeSysFile(files, p, "1", ok)[p] ELSE files[p]],
       RememberAll(settings, [p \in paths |-> files[p]]) >>

\* void ThermalStressor::applySettings(), second loop: for every online core save
\* the governor and set "performance", and below 100 percent save and cap
\* scaling_max_freq: <<files, originalSettings_>> afterwards
applyFrequencies(files, settings, percent, ok) ==
    LET online == {c \in Cores : c = 0 \/ files[OnlinePath(c)] = "1"}
        capped == {c \in online : getMaxFrequency(c) > 0 /\ percent < 100}
        govs   == {GovPath(c) : c \in online}
        maxs   == {MaxPath(c) : c \in capped}
    IN  << [p \in DOMAIN files |->
               IF p \in govs THEN writeSysFile(files, p, "performance", ok)[p]
               ELSE IF p \in maxs
                    THEN writeSysFile(files, p, targetFreq(p[2], percent), ok)[p]
                    ELSE files[p]],
           RememberAll(settings,
               [p \in govs \cup maxs |->
                   IF p \in govs THEN files[p] ELSE SavedMaxFrequency(p[2])]) >>

\* void ThermalStressor::applySettings(): <<files, originalSettings_>> afterwards
applySettings(files, settings, config, ok) ==
    LET forced == IF config.forceAllCoresOnline
                  THEN forceCoresOnline(files, settings, ok)
                  ELSE <<files, settings>>
    IN  applyFrequencies(forced[1], forced[2], config.maxFrequencyPercent, ok)

\* the scaling_max_freq file of the last core applySettings() caps: the one
\* with the highest number among the saved ceilings (none at 100 percent)
LastCapped(settings) ==
    {p \in DOMAIN settings :
        /\ p[1] = "scaling_max_freq"
        /\ \A q \in DOMAIN settings : q[1] = "scaling_max_freq" => q[2] <= p[2]}

\* void ThermalStressor::workerFunction(): one step of the worker thread.  The
\* control files take this run's writes or refuse them all (ok).
ThermalStressor_workerFunction ==
    /\ ~faulted /\ sel = "thermal"
    /\ LET t == thermal.workerThread_ IN
       \/ /\ t.pc = "init"
          /\ \E ok \in BOOLEAN :
               LET applied == applySettings(sysfs, thermal.originalSettings_,
                                            thermal.config_, ok)
                   last == LastCapped(applied[2])
               IN
               \* with a core to cap the worker is now at the last
               \* setMaxFrequency(cpu, targetFreq), inside the lock_guard that
               \* saved the core's original ceiling
               /\ sysfs' = IF last = {} THEN applied[1]
                           ELSE [p \in DOMAIN sysfs |->
                                    IF p \in last THEN sysfs[p] ELSE applied[1][p]]
               /\ thermal' = [thermal EXCEPT
                      !.originalSettings_ = applied[2],
                      !.mutex_ = IF last = {} THEN "free" ELSE "worker",
                      !.workerThread_.writable = ok,
                      !.workerThread_.pc = IF last = {} THEN "loop" ELSE "cap",
                      !.workerThread_.endTime = thermal.startTimeMs_ + thermal.durationMs_]
          /\ hist' = [hist EXCEPT !.onlineWrites =
                         @ \cup (IF thermal.config_.forceAllCoresOnline
                                 THEN setCoreOnline(Cores \ {0}) ELSE {})]
       \/ /\ t.pc = "cap"
          /\ sysfs' = [p \in DOMAIN sysfs |->
                          IF p \in LastCapped(thermal.originalSettings_)
                          THEN writeSysFile(sysfs, p,
                                   targetFreq(p[2], thermal.config_.maxFrequencyPercent),
                                   t.writable)[p]
                          ELSE sysfs[p]]
          /\ thermal' = [thermal EXCEPT !.mutex_ = "free", !.workerThread_.pc = "loop"]
          /\ UNCHANGED hist
       \/ /\ t.pc = "loop"
          /\ IF LoopContinues(thermal, t.endTime)
             THEN LET online == Cardinality({c \in Cores : isCoreOnline(c)}) IN
                  /\ thermal' = [thermal EXCEPT !.coresOnline_ = online]
                  /\ IF thermal.config_.forceAllCoresOnline /\ online < thermal.totalCores_
                     THEN LET offline == setCoreOnline({c \in Cores \ {0} : ~isCoreOnline(c)})
                          IN  /\ sysfs' = [p \in DOMAIN sysfs |->
                                           IF p[1] = "online" /\ p[2] \in offline
                                           THEN writeSysFile(sysfs, p, "1", t.writable)[p]
                                           ELSE sysfs[p]]
                              /\ hist' = [hist EXCEPT !.onlineWrites = @ \cup offline]
                     ELSE UNCHANGED <<sysfs, hist>>
             ELSE /\ thermal' = [thermal EXCEPT !.workerThread_.pc = "mark"]
                  /\ hist' = LeaveLoop(hist, thermal)
                  /\ UNCHANGED sysfs
       \/ /\ t.pc = "mark"
          /\ thermal' = [markStopped(thermal) EXCEPT !.workerThread_.pc = "done"]
          /\ UNCHANGED <<hist, sysfs>>
    /\ UNCHANGED <<now, sel, mgr, peer, freq, session, faulted, caller, lastOp, cpu, mem, disk, net,
                   availableMB, chunks, dirFiles, qdisc>>

\* void ThermalStressor::stop(): wasRunning = isRunning(); if (wasRunning) markStopped();
ThermalStressor_stop ==
    /\ CallerIdle /\ sel = "thermal"
    /\ caller' = EnterStop(thermal, <<thermal.workerThread_>>)
    /\ thermal' = IF thermal.running_ THEN markStopped(thermal) ELSE thermal
    /\ hist' = [hist EXCEPT !.stopCalled = TRUE]
    /\ lastOp' = NoOp
    /\ UNCHANGED <<now, sel, mgr, peer, freq, session, faulted, cpu, mem, disk, net,
                   availableMB, chunks, dirFiles, qdisc, sysfs>>

\* ... if (workerThread_.joinable()) workerThread_.join();
ThermalStressor_stop_join ==
    /\ ~faulted /\ sel = "thermal" /\ caller.pc = "join"
    /\ thermal.workerThread_.joinable => thermal.workerThread_.pc = "done"
    /\ thermal' = [thermal EXCEPT !.workerThread_.joinable = FALSE]
    /\ caller' = [caller EXCEPT !.pc = "restore"]
    /\ UNCHANGED <<now, sel, mgr, peer, freq, session, faulted, lastOp, hist, cpu, mem, disk, net,
                   availableMB, chunks, dirFiles, qdisc, sysfs>>

\* ... restoreSettings(); stop() returns.  At most one write-back fails.
ThermalStressor_stop_restore ==
    /\ ~faulted /\ sel = "thermal" /\ caller.pc = "restore"
    /\ \E failing \in {{}} \cup {{p} : p \in DOMAIN thermal.originalSettings_} :
         /\ sysfs' = restoreSettings(sysfs, thermal.originalSettings_, failing)
         /\ lastOp' = [StopReturn("thermal") EXCEPT
                          !.wrote = thermal.originalSettings_, !.failed = failing]
    /\ thermal' = [thermal EXCEPT !.originalSettings_ = <<>>]
    /\ hist' = [hist EXCEPT !.onlineWrites =
                   @ \cup {p[2] : p \in {q \in DOMAIN thermal.originalSettings_ :
                                             q[1] = "online"}}]
    /\ caller' = CallerInit
    /\ UNCHANGED <<now, sel, mgr, peer, freq, session, faulted, cpu, mem, disk, net,
                   availableMB, chunks, dirFiles, qdisc>>

\* StressStatus ThermalStressor::getStatus() const, called by a second thread:
\* isRunning() and getRemainingTimeMs() are read without the lock; when the
\* generator is running the caller waits at lock_guard(mutex_) (pc "lock")
\* until the lock is free, copies the counters and returns
ThermalStressor_getStatus ==
    /\ ~faulted /\ sel = "thermal"
    /\ \/ /\ peer.pc = "none"
          /\ peer' = IF thermal.running_ THEN [pc |-> "lock"] ELSE peer
       \/ /\ peer.pc = "lock" /\ thermal.mutex_ = "free"
          /\ peer' = NoPeer
    /\ UNCHANGED <<now, sel, mgr, freq, session, faulted, caller, lastOp, cpu, mem, disk,
                   net, thermal, availableMB, chunks, dirFiles, qdisc, sysfs, hist>>

\* the configuration the second thread passes to start()
RacingConfigs == {[maxFrequencyPercent |-> 100, forceAllCoresOnline |-> FALSE,
                   durationMs |-> MaxDuration]}

\* bool ThermalStressor::start(const ThermalStressConfig& config) called by a
\* second thread directly on the generator, one step per statement: the
\* isRunning() test (pc "none"), config_ = config and originalSettings_.clear()
\* under the lock ("store"), totalCores_, setDuration() and markStarted()
\* ("mark"), workerThread_ = std::thread(...) and return true ("spawn").
\* wasRunning and replaced record what the "store" step found.
ThermalStressor_start_racing(config) ==
    /\ ~faulted /\ sel = "thermal"
    /\ \/ /\ peer.pc = "none" /\ ~thermal.running_
          /\ peer' = [pc |-> "store", config |-> config, wasRunning |-> FALSE,
                      replaced |-> config]
          /\ UNCHANGED <<thermal, faulted>>
       \/ /\ peer.pc = "store" /\ peer.config = config /\ thermal.mutex_ = "free"
          /\ thermal' = [thermal EXCEPT !.config_ = config, !.originalSettings_ = <<>>]
          /\ peer' = [peer EXCEPT !.pc = "mark", !.wasRunning = thermal.running_,
                                  !.replaced = thermal.config_]
          /\ UNCHANGED faulted
       \/ /\ peer.pc = "mark" /\ peer.config = config
          /\ thermal' = [markStarted(thermal, config.durationMs) EXCEPT
                            !.totalCores_ = getNumCores]
          /\ peer' = [peer EXCEPT !.pc = "spawn"]
          /\ UNCHANGED faulted
       \/ /\ peer.pc = "spawn" /\ peer.config = config
          /\ IF thermal.workerThread_.joinable
             THEN \* the move assignment finds the other call's thread joinable
                  /\ faulted' = TRUE
                  /\ UNCHANGED <<thermal, peer>>
             ELSE /\ thermal' = [thermal EXCEPT
                                    !.workerThread_ = NewThread @@ [writable |-> TRUE]]
                  /\ peer' = [peer EXCEPT !.pc = "returned"]
                  /\ UNCHANGED faulted
    /\ UNCHANGED <<now, sel, mgr, freq, session, caller, lastOp, cpu, mem, disk, net,
                   availableMB, chunks, dirFiles, qdisc, sysfs, hist>>

\* the system's hotplug takes a non-primary core offline during a run
EnvHotplug ==
    /\ ~faulted /\ sel = "thermal"
    /\ InProgress(thermal, <<thermal.workerThread_>>)
    /\ \E c \in Cores \ {0} :
         /\ sysfs[OnlinePath(c)] = "1"
         /\ sysfs' = [sysfs EXCEPT ![OnlinePath(c)] = "0"]
    /\ lastOp' = NoOp
    /\ UNCHANGED <<now, sel, mgr, peer, freq, session, faulted, caller, cpu, mem, disk, net, thermal,
                   availableMB, chunks, dirFiles, qdisc, hist>>

(* --------------------------- CPUFreqManager ---------------------------- *)
(* The persistent frequency-throttle controller (danr-zygisk/jni/           *)
(* cpu_freq_manager.cpp), driven through the web server's handlers.  It is  *)
(* independent of the generators: a behaviour of SpecFreq drives it alone.  *)
(* Threads: one control caller (handle_cpu_freq_set, restore), the          *)
(* controller's worker thread, and the environment (clock, drift).          *)

\* setLimit requests that reach setMaxFrequency in one behaviour
MaxCalls == 2
\* the frequencies a request may name: two ceilings below the hardware
\* maximum, zero and a negative one
LimitFreqs == {2, 3}

FreqRequests == {-1, 0} \cup LimitFreqs

\* the "cores" array of a request; the empty one stands for all cores
CoreArgs == {{}} \cup {{c} : c \in Cores}

\* the auto-restore windows a request may name (ms); 0: no auto-restore
Windows == {0, 1}

\* long CPUFreqManager::getCurrentMaxFreq(int cpu) const: scaling_max_freq
getCurrentMaxFreq(files, c) == files[MaxPath(c)]

\* long CPUFreqManager::getHardwareMaxFreq(int cpu) const: cpuinfo_max_freq
getHardwareMaxFreq(c) == getMaxFrequency(c)

\* bool CPUFreqManager::setCpuMaxFreq(int cpu, long frequency)
setCpuMaxFreq(files, c, frequency, ok) == writeSysFile(files, MaxPath(c), frequency, ok)

FreqInit == [isLimited_ |-> FALSE, targetMaxFreq_ |-> 0,
             originalMaxFreq_ |-> getHardwareMaxFreq(0),
             autoRestoreMs_ |-> 0, limitStartTimeMs_ |-> 0,
             targetCores_ |-> {}, originalSettings_ |-> <<>>,
             workerRunning_ |-> FALSE,
             workerThread_ |-> [pc |-> "none", joinable |-> FALSE]]

\* history kept for the properties.  A limiting session opens with the first
\* setMaxFrequency call after construction or after a restore(), and is closed
\* by the locked part of restore().  calls: the setMaxFrequency calls of the
\* behaviour; n: those of the session (1, or 2 for more); pre: the control
\* files when the session opened; cores: the target cores of its calls; same:
\* all its calls named the same cores; ok: none of its writes failed;
\* partialOk: the cores written by a call another write of which failed;
\* touched: the control caller made a further call after the first; pairs:
\* the <<autoRestoreMs_, limitStartTimeMs_>> its calls stored together.
NoSession == [calls |-> 0, open |-> FALSE, n |-> 0, pre |-> <<>>, cores |-> {},
              same |-> TRUE, ok |-> TRUE, partialOk |-> {}, touched |-> FALSE,
              pairs |-> {}]

\* the target cores of a call: "If no specific cores, target all cores"
TargetCores(cores) == IF cores = {} THEN Cores ELSE cores

\* setMaxFrequency taking the snapshot anew on every call
SaveOriginalSettings_always(f, files, targetCores) ==
    [p \in {MaxPath(c) : c \in {d \in targetCores : getCurrentMaxFreq(files, d) > 0}}
        |-> files[p]]

\* originalSettings_ after "Save original settings if this is the first time
\* limiting": taken anew only while isLimited_ is false
SaveOriginalSettings(f, files, targetCores) ==
    IF f.isLimited_ THEN f.originalSettings_
    ELSE [p \in {MaxPath(c) : c \in {d \in targetCores : getCurrentMaxFreq(files, d) > 0}}
             |-> files[p]]

\* "Apply frequency to all target cores": the files afterwards, the writes to
\* the cores of failing failing
ApplyFrequency(files, targetCores, frequency, failing) ==
    [p \in DOMAIN files |->
        IF p \in {MaxPath(c) : c \in targetCores}
        THEN setCpuMaxFreq(files, p[2], frequency, p[2] \notin failing)[p]
        ELSE files[p]]

\* void CPUFreqManager::startWorker(): it joins a finished thread first, so it
\* can proceed once that thread has returned
StartWorkerReady(f) ==
    f.workerRunning_ \/ ~f.workerThread_.joinable \/ f.workerThread_.pc = "done"

startWorker(f) ==
    IF f.workerRunning_ THEN f
    ELSE [f EXCEPT !.workerRunning_ = TRUE,
                   !.workerThread_ = [pc |-> "loop", joinable |-> TRUE]]

\* the history after a setMaxFrequency call
SessionCall(targetCores, failing) ==
    LET partial == IF failing # {} THEN targetCores \ failing ELSE {}
    IN  IF session.open
        THEN [session EXCEPT !.calls = @ + 1, !.n = 2,
                             !.same = @ /\ targetCores = session.cores,
                             !.cores = @ \cup targetCores,
                             !.ok = @ /\ failing = {},
                             !.partialOk = @ \cup partial,
                             !.touched = TRUE]
        ELSE [NoSession EXCEPT !.calls = session.calls + 1, !.open = TRUE, !.n = 1,
                               !.pre = sysfs, !.cores = targetCores,
                               !.ok = failing = {}, !.partialOk = partial]

\* the cores whose write the kernel may refuse in one call: none, or one
WriteFailures(targetCores) == {{}} \cup {{c} : c \in targetCores}

\* bool CPUFreqManager::setMaxFrequency(long frequency, const std::vector<int>&
\* cores, long autoRestoreMs), all of it under mutex_
setMaxFrequency(frequency, cores, autoRestoreMs, failing) ==
    LET targetCores == TargetCores(cores)
        allSuccess  == failing = {}
        saved   == [freq EXCEPT
                       !.originalSettings_ = SaveOriginalSettings(freq, sysfs, targetCores),
                       !.originalMaxFreq_ = IF freq.isLimited_ THEN @
                                            ELSE getHardwareMaxFreq(0)]
        limited == [saved EXCEPT !.targetCores_ = targetCores,
                                 !.targetMaxFreq_ = frequency,
                                 !.autoRestoreMs_ = autoRestoreMs,
                                 !.limitStartTimeMs_ = now,
                                 !.isLimited_ = TRUE]
    IN  /\ allSuccess => StartWorkerReady(freq)
        /\ sysfs' = ApplyFrequency(sysfs, targetCores, frequency, failing)
        /\ freq' = IF allSuccess THEN startWorker(limited) ELSE saved
        /\ lastOp' = [Returned("setLimit", "cpu_freq", allSuccess) EXCEPT
                         !.failed = failing]
        /\ session' = SessionCall(targetCores, failing)

\* handle_cpu_freq_set without its "if (frequency <= 0)"
handle_cpu_freq_set_unchecked(frequency, cores, autoRestoreMs) ==
    /\ CallerIdle /\ sel = "cpu_freq"
    /\ session.calls < MaxCalls
    /\ \E failing \in WriteFailures(TargetCores(cores)) :
         setMaxFrequency(frequency, cores, autoRestoreMs, failing)
    /\ UNCHANGED <<now, sel, mgr, peer, faulted, caller, hist, cpu, mem, disk, net, thermal,
                   availableMB, chunks, dirFiles, qdisc>>

\* void handle_cpu_freq_set(int client_socket, const std::string& body): the
\* setLimit request, the only caller of setMaxFrequency
handle_cpu_freq_set(frequency, cores, autoRestoreMs) ==
    /\ CallerIdle /\ sel = "cpu_freq"
    /\ IF frequency <= 0
       THEN \* {"success":false,"error":"Invalid frequency"}
            /\ lastOp' = Returned("setLimit", "cpu_freq", FALSE)
            /\ UNCHANGED <<freq, sysfs, session>>
       ELSE /\ session.calls < MaxCalls
            /\ \E failing \in WriteFailures(TargetCores(cores)) :
                 setMaxFrequency(frequency, cores, autoRestoreMs, failing)
    /\ UNCHANGED <<now, sel, mgr, peer, faulted, caller, hist, cpu, mem, disk, net, thermal,
                   availableMB, chunks, dirFiles, qdisc>>

\* for (const auto& kv : originalSettings_) writeSysFile(kv.first, kv.second):
\* the writes, in the order of the map's keys
RECURSIVE RestoreWrites(_, _)
RestoreWrites(settings, paths) ==
    IF paths = {} THEN <<>>
    ELSE LET p == CHOOSE q \in paths : \A r \in paths : q[2] <= r[2]
         IN  <<[path |-> p, value |-> settings[p]]>> \o RestoreWrites(settings, paths \ {p})

\* the files after the writes of a sequence, those to the paths of failing failing
RECURSIVE WriteBack(_, _, _)
WriteBack(files, writes, failing) ==
    IF writes = <<>> THEN files
    ELSE WriteBack(writeSysFile(files, writes[1].path, writes[1].value,
                                writes[1].path \notin failing),
                   Tail(writes), failing)

\* restore() leaving the auto-restore window as it is
ClearState_keepWindow(f) ==
    [f EXCEPT !.originalSettings_ = <<>>, !.targetCores_ = {},
              !.targetMaxFreq_ = 0, !.limitStartTimeMs_ = 0, !.isLimited_ = FALSE]

\* originalSettings_.clear(); targetCores_.clear(); targetMaxFreq_.store(0);
\* autoRestoreMs_.store(0); limitStartTimeMs_.store(0); isLimited_.store(false)
ClearState(f) ==
    [f EXCEPT !.originalSettings_ = <<>>, !.targetCores_ = {},
              !.targetMaxFreq_ = 0, !.autoRestoreMs_ = 0,
              !.limitStartTimeMs_ = 0, !.isLimited_ = FALSE]

\* bool CPUFreqManager::restore(), the part under mutex_:
\* <<files, controller, writes made>> afterwards
RestoreLocked(failing) ==
    IF ~freq.isLimited_
    THEN <<sysfs, freq, <<>> >>
    ELSE LET writes == RestoreWrites(freq.originalSettings_, DOMAIN freq.originalSettings_)
         IN  <<WriteBack(sysfs, writes, failing), ClearState(freq), writes>>

\* the paths whose write-back the kernel may refuse: none, or one of them
RestoreFailures == {{}} \cup {{p} : p \in DOMAIN freq.originalSettings_}

\* bool CPUFreqManager::restore() called by the control thread: stopWorker()
\* up to its join
CPUFreqManager_restore ==
    /\ CallerIdle /\ sel = "cpu_freq"
    /\ IF freq.workerRunning_
       THEN /\ freq' = [freq EXCEPT !.workerRunning_ = FALSE]
            /\ caller' = [caller EXCEPT !.pc = "join"]
       ELSE /\ caller' = [caller EXCEPT !.pc = "locked"]
            /\ UNCHANGED freq
    /\ session' = [session EXCEPT !.touched = session.open]
    /\ lastOp' = NoOp
    /\ UNCHANGED <<now, sel, mgr, peer, faulted, hist, cpu, mem, disk, net, thermal,
                   availableMB, chunks, dirFiles, qdisc, sysfs>>

\* ... stopWorker(): if (workerThread_.joinable()) workerThread_.join();
CPUFreqManager_restore_join ==
    /\ ~faulted /\ sel = "cpu_freq" /\ caller.pc = "join"
    /\ freq.workerThread_.joinable => freq.workerThread_.pc = "done"
    /\ freq' = [freq EXCEPT !.workerThread_.joinable = FALSE]
    /\ caller' = [caller EXCEPT !.pc = "locked"]
    /\ UNCHANGED <<now, sel, mgr, peer, faulted, lastOp, hist, session, cpu, mem, disk, net,
                   thermal, availableMB, chunks, dirFiles, qdisc, sysfs>>

\* ... the locked part; restore() returns true
CPUFreqManager_restore_locked ==
    /\ ~faulted /\ sel = "cpu_freq" /\ caller.pc = "locked"
    /\ \E failing \in RestoreFailures :
         LET r == RestoreLocked(failing) IN
         /\ sysfs' = r[1]
         /\ freq' = r[2]
         /\ lastOp' = [Returned("restore", "cpu_freq", TRUE) EXCEPT
                          !.fromIdle = ~freq.isLimited_,
                          !.wrote = r[3], !.failed = failing]
    /\ session' = [session EXCEPT !.open = FALSE]
    /\ caller' = CallerInit
    /\ UNCHANGED <<now, sel, mgr, peer, faulted, hist, cpu, mem, disk, net, thermal,
                   availableMB, chunks, dirFiles, qdisc>>

\* void CPUFreqManager::tick(), "Re-apply frequency to counter system changes"
ReapplyFrequency(files, f) ==
    [p \in DOMAIN files |->
        IF p \in {MaxPath(c) : c \in f.targetCores_} /\ files[p] # f.targetMaxFreq_
        THEN setCpuMaxFreq(files, p[2], f.targetMaxFreq_, TRUE)[p]
        ELSE files[p]]

\* the auto-restore window of the session has elapsed
WindowElapsed(f) ==
    f.autoRestoreMs_ > 0 /\ now - f.limitStartTimeMs_ >= f.autoRestoreMs_

\* the worker has left its loop: workerRunning_.store(false); return
WorkerExit(f) ==
    [f EXCEPT !.workerRunning_ = FALSE, !.workerThread_.pc = "done"]

\* void CPUFreqManager::workerFunction(): one step of the worker thread; tick()
\* is one step
CPUFreqManager_workerFunction ==
    /\ ~faulted /\ sel = "cpu_freq"
    /\ LET t == freq.workerThread_ IN
       \/ \* while (workerRunning_.load())
          /\ t.pc = "loop"
          /\ freq' = IF freq.workerRunning_
                     THEN [freq EXCEPT !.workerThread_.pc = "tick"]
                     ELSE WorkerExit(freq)
          /\ UNCHANGED <<faulted, sysfs, session>>
       \/ \* tick()
          /\ t.pc = "tick"
          /\ IF ~freq.isLimited_
             THEN /\ freq' = [freq EXCEPT !.workerThread_.pc = "check"]
                  /\ UNCHANGED <<faulted, sysfs, session>>
             ELSE IF WindowElapsed(freq)
             THEN \* restore(): stopWorker() first
                  IF freq.workerRunning_
                  THEN \* workerThread_.join() by the worker thread itself:
                       \* std::system_error, not caught
                       /\ faulted' = TRUE
                       /\ UNCHANGED <<freq, sysfs, session>>
                  ELSE \E failing \in RestoreFailures :
                         LET r == RestoreLocked(failing) IN
                         /\ sysfs' = r[1]
                         /\ freq' = [r[2] EXCEPT !.workerThread_.pc = "check"]
                         /\ session' = [session EXCEPT !.open = FALSE]
                         /\ UNCHANGED faulted
             ELSE /\ sysfs' = ReapplyFrequency(sysfs, freq)
                  /\ freq' = [freq EXCEPT !.workerThread_.pc = "check"]
                  /\ UNCHANGED <<faulted, session>>
       \/ \* if (!isLimited_.load()) break; usleep(1500000);
          /\ t.pc = "check"
          /\ freq' = IF ~freq.isLimited_
                     THEN WorkerExit(freq)
                     ELSE [freq EXCEPT !.workerThread_.pc = "loop"]
          /\ UNCHANGED <<faulted, sysfs, session>>
    /\ UNCHANGED <<now, sel, mgr, peer, caller, lastOp, hist, cpu, mem, disk, net, thermal,
                   availableMB, chunks, dirFiles, qdisc>>

\* the system (thermal daemon, power HAL) puts the ceiling of cpu0, while it
\* is limited, back to the hardware maximum
EnvDrift ==
    /\ ~faulted /\ sel = "cpu_freq" /\ freq.isLimited_
    /\ \E c \in freq.targetCores_ \cap {0} :
         /\ sysfs[MaxPath(c)] = freq.targetMaxFreq_
         /\ sysfs' = [sysfs EXCEPT ![MaxPath(c)] = getHardwareMaxFreq(c)]
    /\ UNCHANGED <<now, sel, mgr, peer, faulted, caller, lastOp, hist, freq, session, cpu, mem,
                   disk, net, thermal, availableMB, chunks, dirFiles, qdisc>>

\* std::chrono::system_clock advances.  The controller reads the clock only to
\* compare it with the end of the auto-restore window.
FreqTick ==
    /\ ~faulted /\ sel = "cpu_freq"
    /\ freq.isLimited_ /\ freq.autoRestoreMs_ > 0
    /\ now < freq.limitStartTimeMs_ + freq.autoRestoreMs_
    /\ now' = now + 1
    /\ UNCHANGED <<sel, mgr, peer, faulted, caller, lastOp, hist, freq, session, cpu, mem,
                   disk, net, thermal, availableMB, chunks, dirFiles, qdisc, sysfs>>

(* The same controller with the steps inside its operations visible: the   *)
(* two stores at the end of setMaxFrequency, and tick() called by a second  *)
(* thread ("Called by webserver to update state"), one step per read.       *)

\* the auto-restore windows offered to the stepwise setMaxFrequency
TickWindows == {1, 2}

\* bool CPUFreqManager::setMaxFrequency(frequency, {}, autoRestoreMs) with all
\* writes succeeding, in two steps: up to autoRestoreMs_.store(autoRestoreMs)
\* (pc "storing", mutex_ held), then limitStartTimeMs_.store(getCurrentTimeMs()),
\* isLimited_.store(true), startWorker() and the return
setMaxFrequency_stepwise(frequency, autoRestoreMs) ==
    /\ ~faulted /\ sel = "cpu_freq"
    /\ \/ /\ caller.pc = "idle" /\ session.calls < MaxCalls
          /\ sysfs' = ApplyFrequency(sysfs, Cores, frequency, {})
          /\ freq' = [freq EXCEPT
                 !.originalSettings_ = SaveOriginalSettings(freq, sysfs, Cores),
                 !.originalMaxFreq_ = IF freq.isLimited_ THEN @ ELSE getHardwareMaxFreq(0),
                 !.targetCores_ = Cores,
                 !.targetMaxFreq_ = frequency,
                 !.autoRestoreMs_ = autoRestoreMs]
          /\ caller' = [caller EXCEPT !.pc = "storing"]
          /\ session' = SessionCall(Cores, {})
          /\ lastOp' = NoOp
       \/ /\ caller.pc = "storing" /\ freq.autoRestoreMs_ = autoRestoreMs
          /\ freq.targetMaxFreq_ = frequency
          /\ StartWorkerReady(freq)
          /\ freq' = startWorker([freq EXCEPT !.limitStartTimeMs_ = now,
                                              !.isLimited_ = TRUE])
          /\ caller' = CallerInit
          /\ session' = [session EXCEPT !.pairs = @ \cup {<<autoRestoreMs, now>>}]
          /\ lastOp' = Returned("setLimit", "cpu_freq", TRUE)
          /\ UNCHANGED sysfs
    /\ UNCHANGED <<now, sel, mgr, peer, faulted, hist, cpu, mem, disk, net, thermal,
                   availableMB, chunks, dirFiles, qdisc>>

\* void CPUFreqManager::tick() called by a second thread, one step per read:
\* isLimited_ (pc "none"), autoRestoreMs_ ("window"), limitStartTimeMs_ and the
\* comparison ("start"), restore() with its stopWorker() ("restore", "join",
\* "locked"), targetMaxFreq_ ("target"), the copy of targetCores_ under mutex_
\* ("cores"), the re-apply loop ("reapply").  legit records whether the
\* window and the timestamp compared had been stored by one call.
CPUFreqManager_tick ==
    /\ ~faulted /\ sel = "cpu_freq"
    /\ \/ /\ peer.pc = "none"
          /\ peer' = IF freq.isLimited_ THEN [pc |-> "window"] ELSE peer
          /\ UNCHANGED <<freq, sysfs, session>>
       \/ /\ peer.pc = "window"
          /\ peer' = IF freq.autoRestoreMs_ > 0
                     THEN [pc |-> "start", autoRestore |-> freq.autoRestoreMs_]
                     ELSE [pc |-> "target"]
          /\ UNCHANGED <<freq, sysfs, session>>
       \/ /\ peer.pc = "start"
          /\ peer' = IF now - freq.limitStartTimeMs_ >= peer.autoRestore
                     THEN [pc |-> "restore",
                           legit |-> <<peer.autoRestore, freq.limitStartTimeMs_>>
                                        \in session.pairs]
                     ELSE [pc |-> "target"]
          /\ UNCHANGED <<freq, sysfs, session>>
       \/ /\ peer.pc = "restore"
          /\ freq' = [freq EXCEPT !.workerRunning_ = FALSE]
          /\ peer' = [pc |-> IF freq.workerRunning_ THEN "join" ELSE "locked"]
          /\ UNCHANGED <<sysfs, session>>
       \/ /\ peer.pc = "join"
          /\ freq.workerThread_.joinable => freq.workerThread_.pc = "done"
          /\ freq' = [freq EXCEPT !.workerThread_.joinable = FALSE]
          /\ peer' = [pc |-> "locked"]
          /\ UNCHANGED <<sysfs, session>>
       \/ /\ peer.pc = "locked" /\ caller.pc # "storing"
          /\ LET r == RestoreLocked({}) IN
             /\ sysfs' = r[1]
             /\ freq' = r[2]
          /\ session' = [session EXCEPT !.open = FALSE]
          /\ peer' = NoPeer
       \/ /\ peer.pc = "target"
          /\ peer' = [pc |-> "cores", targetFreq |-> freq.targetMaxFreq_]
          /\ UNCHANGED <<freq, sysfs, session>>
       \/ /\ peer.pc = "cores" /\ caller.pc # "storing"
          /\ peer' = [pc |-> "reapply", targetFreq |-> peer.targetFreq,
                      cores |-> freq.targetCores_]
          /\ UNCHANGED <<freq, sysfs, session>>
       \/ /\ peer.pc = "reapply"
          /\ sysfs' = [p \in DOMAIN sysfs |->
                          IF /\ p \in {MaxPath(c) : c \in peer.cores}
                             /\ sysfs[p] # peer.targetFreq
                          THEN setCpuMaxFreq(sysfs, p[2], peer.targetFreq, TRUE)[p]
                          ELSE sysfs[p]]
          /\ peer' = NoPeer
          /\ UNCHANGED <<freq, session>>
    /\ UNCHANGED <<now, sel, mgr, faulted, caller, lastOp, hist, cpu, mem, disk, net,
                   thermal, availableMB, chunks, dirFiles, qdisc>>

(* ---------------------------- StressManager ---------------------------- *)
(* The orchestrator with its five generators side by side.  Each generator *)
(* is kept to what the orchestrator's operations depend on: its running    *)
(* flag, its worker thread and whether its perturbation is in place.       *)

\* the starts the orchestrator accepts in one behaviour
MaxStarts == 2

\* a stopAll() that leaves the thermal generator out
StopOrder_short == <<"cpu", "memory", "disk_io", "network">>

\* the order in which stopAll() stops the generators
StopOrder == <<"cpu", "memory", "disk_io", "network", "thermal">>

\* a generator as the orchestrator sees it: running_, the worker thread
\* ("none": no joinable handle) and what the run has in place (applied:
\* "none", "full", or "partial" when the tc rules were applied part-way, which
\* leaves tcRulesApplied_ false)
ManagerInit ==
    [mutex_ |-> "free",
     gens |-> [g \in Generators |->
                  [running_ |-> FALSE, thread |-> "none", applied |-> "none"]],
     a |-> [pc |-> "idle", op |-> "none", todo |-> <<>>],
     b |-> [pc |-> "idle", gen |-> "none"],
     starts |-> 0,
     restored |-> {},
     last |-> [op |-> "none", result |-> FALSE]]

\* what a generator's restore path (releaseMemory, cleanup, removeTcRules,
\* restoreSettings) leaves in place: removeTcRules returns at once when
\* tcRulesApplied_ is false
AfterRestore(g, applied) ==
    IF g = "network" /\ applied = "partial" THEN "partial" ELSE "none"

\* bool StressManager::startXStress(config): lock_guard; return x->start(config);
StressManager_start(g) ==
    /\ ~faulted /\ sel = "manager" /\ mgr.a.pc = "idle" /\ mgr.mutex_ = "free"
    /\ LET x == mgr.gens[g] IN
       IF x.running_
       THEN /\ mgr' = [mgr EXCEPT !.last = [op |-> "start", result |-> FALSE]]
            /\ UNCHANGED faulted
       ELSE IF x.thread # "none"
       THEN \* the worker handle of the expired run is overwritten
            /\ faulted' = TRUE
            /\ UNCHANGED mgr
       ELSE /\ mgr.starts < MaxStarts
            /\ mgr' = [mgr EXCEPT !.gens[g] = [running_ |-> TRUE, thread |-> "init",
                                               applied |-> "none"],
                                  !.starts = @ + 1,
                                  !.last = [op |-> "start", result |-> TRUE]]
            /\ UNCHANGED faulted
    /\ UNCHANGED <<now, sel, peer, caller, lastOp, cpu, mem, disk, net, thermal,
                   availableMB, chunks, dirFiles, qdisc, sysfs, hist, freq, session>>

\* the worker of generator g: it puts the perturbation in place, waits for the
\* end of the run (stop() or the duration), then markStopped() and, except in
\* the thermal generator, its own release
Stressor_workerFunction(g) ==
    /\ ~faulted /\ sel = "manager"
    /\ LET x == mgr.gens[g] IN
       \/ /\ x.thread = "init"
          /\ \E outcome \in IF g = "network" THEN {"full", "partial"}
                           ELSE IF g = "cpu" THEN {"none"} ELSE {"full"} :
               mgr' = [mgr EXCEPT
                   !.gens[g].applied = outcome,
                   !.gens[g].thread = IF outcome = "partial" THEN "done" ELSE "loop",
                   !.gens[g].running_ = IF outcome = "partial" THEN FALSE ELSE @]
       \/ /\ x.thread = "loop"
          /\ mgr' = [mgr EXCEPT
                 !.gens[g].running_ = FALSE,
                 !.gens[g].thread = "done",
                 !.gens[g].applied = IF g = "thermal" THEN @ ELSE "none"]
    /\ UNCHANGED <<now, sel, peer, faulted, caller, lastOp, cpu, mem, disk, net, thermal,
                   availableMB, chunks, dirFiles, qdisc, sysfs, hist, freq, session>>

\* thread a takes the orchestrator's lock and enters stop() of the first
\* generator of todo: wasRunning = isRunning(); if (wasRunning) markStopped();
\* op is "stop" (stopXStress), "stopAll" or "destroy" (~StressManager)
StressManager_stop(op, todo) ==
    /\ ~faulted /\ sel = "manager" /\ mgr.a.pc = "idle" /\ mgr.mutex_ = "free"
    /\ mgr' = [mgr EXCEPT !.mutex_ = "a",
                          !.a = [pc |-> "join", op |-> op, todo |-> todo],
                          !.gens[Head(todo)].running_ = FALSE,
                          !.restored = {},
                          !.last = [op |-> "none", result |-> FALSE]]
    /\ UNCHANGED <<now, sel, peer, faulted, caller, lastOp, cpu, mem, disk, net, thermal,
                   availableMB, chunks, dirFiles, qdisc, sysfs, hist, freq, session>>

\* ... if (workerThread_.joinable()) workerThread_.join();
StressManager_stop_join ==
    /\ ~faulted /\ sel = "manager" /\ mgr.a.pc = "join"
    /\ mgr.gens[Head(mgr.a.todo)].thread \in {"none", "done"}
    /\ mgr' = [mgr EXCEPT !.gens[Head(mgr.a.todo)].thread = "none",
                          !.a.pc = "restore"]
    /\ UNCHANGED <<now, sel, peer, faulted, caller, lastOp, cpu, mem, disk, net, thermal,
                   availableMB, chunks, dirFiles, qdisc, sysfs, hist, freq, session>>

\* ... the generator's restore path; stop() returns, and the orchestrator
\* enters stop() of the next generator of stopAll() or releases its lock
StressManager_stop_restore ==
    /\ ~faulted /\ sel = "manager" /\ mgr.a.pc = "restore"
    /\ LET g == Head(mgr.a.todo)
           rest == Tail(mgr.a.todo)
           done == [mgr EXCEPT !.gens[g].applied = AfterRestore(g, @),
                               !.restored = @ \cup {g}]
       IN IF rest # <<>>
          THEN mgr' = [done EXCEPT !.a.todo = rest, !.a.pc = "join",
                                   !.gens[Head(rest)].running_ = FALSE]
          ELSE mgr' = [done EXCEPT
                          !.mutex_ = "free",
                          !.a = [pc |-> IF mgr.a.op = "destroy" THEN "destroyed"
                                        ELSE "idle",
                                 op |-> "none", todo |-> <<>>],
                          !.last = [op |-> mgr.a.op, result |-> TRUE]]
    /\ UNCHANGED <<now, sel, peer, faulted, caller, lastOp, cpu, mem, disk, net, thermal,
                   availableMB, chunks, dirFiles, qdisc, sysfs, hist, freq, session>>

\* the value isAnyRunning() computes from the five running flags
AnyRunning(gens) == \E g \in Generators : gens[g].running_

\* bool StressManager::isAnyRunning() const
StressManager_isAnyRunning ==
    /\ ~faulted /\ sel = "manager" /\ mgr.a.pc = "idle" /\ mgr.mutex_ = "free"
    /\ mgr' = [mgr EXCEPT !.last = [op |-> "isAnyRunning",
                                    result |-> AnyRunning(mgr.gens)]]
    /\ UNCHANGED <<now, sel, peer, faulted, caller, lastOp, cpu, mem, disk, net, thermal,
                   availableMB, chunks, dirFiles, qdisc, sysfs, hist, freq, session>>

\* StressStatus StressManager::getXStatus() const, called by thread b: b waits
\* at the lock_guard (pc "lock") until the lock is free, then reads the status
\* and returns
StressManager_getStatus ==
    /\ ~faulted /\ sel = "manager" /\ mgr.a.pc # "destroyed"
    /\ \/ /\ mgr.b.pc = "idle"
          /\ \E g \in Generators : mgr' = [mgr EXCEPT !.b = [pc |-> "lock", gen |-> g]]
       \/ /\ mgr.b.pc = "lock" /\ mgr.mutex_ = "free"
          /\ mgr' = [mgr EXCEPT !.b = [pc |-> "idle", gen |-> "none"]]
    /\ UNCHANGED <<now, sel, peer, faulted, caller, lastOp, cpu, mem, disk, net, thermal,
                   availableMB, chunks, dirFiles, qdisc, sysfs, hist, freq, session>>

(* ------------------------------ clock ---------------------------------- *)

\* the generator a behaviour drives, and its worker handles
Gen == CASE sel = "cpu" -> cpu
         [] sel = "memory" -> mem
         [] sel = "disk_io" -> disk
         [] sel = "network" -> net
         [] sel = "thermal" -> thermal

Workers == IF sel = "cpu" THEN cpu.workerThreads_
           ELSE <<Gen.workerThread_>>

\* long endTime = startTimeMs_.load() + durationMs_.load()
Deadline == Gen.startTimeMs_ + Gen.durationMs_

\* std::chrono::steady_clock advances.  The code reads the clock only to compare
\* it with the deadline of the run and to compute the remaining time, so the
\* time that passes while nothing runs is left out, and so is the time after
\* the deadline beyond the first instant past it (a worker that sleeps
\* through the deadline sees the clock past it while running_ is still set).
Tick ==
    /\ ~faulted
    /\ InProgress(Gen, Workers) /\ now <= Deadline
    /\ now' = now + 1
    /\ UNCHANGED <<sel, mgr, peer, faulted, caller, lastOp, cpu, mem, disk, net, thermal,
                   availableMB, chunks, dirFiles, qdisc, sysfs, hist, freq, session>>

(* --------------------------- specification ----------------------------- *)

\* the control files before any run: the cores of online are online, every
\* governor is "schedutil", and every scaling_max_freq is at the hardware
\* maximum or (lowered) one step below it
SysfsInit(online, lowered) ==
    [p \in SysPaths |->
        IF p[1] = "online" THEN (IF p[2] \in online THEN "1" ELSE "0")
        ELSE IF p[1] = "scaling_governor" THEN "schedutil"
        ELSE IF lowered THEN getMaxFrequency(p[2]) - 1 ELSE getMaxFrequency(p[2])]

Init ==
    /\ now = 0
    /\ sel \in Generators
    /\ faulted = FALSE
    /\ caller = CallerInit
    /\ lastOp = NoOp
    /\ cpu = CPUInit
    /\ mem = MemoryInit
    /\ disk = DiskInit
    /\ net = NetworkInit
    /\ thermal = ThermalInit
    /\ availableMB \in IF sel = "memory" THEN 0..MaxAvailMB ELSE {MaxAvailMB}
    /\ chunks = <<>>
    /\ dirFiles \in IF sel = "disk_io" THEN {{OtherFile}, {OtherFile, LeftoverFile}}
                    ELSE {{OtherFile}}
    /\ qdisc \in IF sel = "network" THEN [tc : BOOLEAN, rules : {{}, {ForeignRule}}]
                 ELSE {[tc |-> TRUE, rules |-> {}]}
    /\ sysfs \in IF sel = "thermal"
                 THEN {SysfsInit(Cores, FALSE), SysfsInit({0}, TRUE)}
                 ELSE {SysfsInit(Cores, FALSE)}
    /\ hist = NoHist
    /\ freq = FreqInit
    /\ session = NoSession
    /\ mgr = ManagerInit
    /\ peer = NoPeer

Next ==
    \/ Tick
    \/ \E config \in CPUConfigs : CPUStressor_start(config)
    \/ \E i \in DOMAIN cpu.workerThreads_ : CPUStressor_workerFunction(i)
    \/ CPUStressor_stop
    \/ CPUStressor_stop_join
    \/ \E config \in MemoryConfigs : MemoryStressor_start(config)
    \/ MemoryStressor_workerFunction
    \/ MemoryStressor_stop
    \/ MemoryStressor_stop_join
    \/ MemoryStressor_stop_release
    \/ MemoryStressor_stop_free
    \/ EnvMemory
    \/ \E config \in DiskConfigs : DiskStressor_start(config)
    \/ DiskStressor_workerFunction
    \/ DiskStressor_stop
    \/ DiskStressor_stop_join
    \/ DiskStressor_stop_cleanup
    \/ \E config \in NetworkConfigs : NetworkStressor_start(config)
    \/ NetworkStressor_workerFunction
    \/ NetworkStressor_stop
    \/ NetworkStressor_stop_join
    \/ NetworkStressor_stop_remove
    \/ EnvTc
    \/ \E config \in ThermalConfigs : ThermalStressor_start(config)
    \/ ThermalStressor_workerFunction
    \/ ThermalStressor_stop
    \/ ThermalStressor_stop_join
    \/ ThermalStressor_stop_restore
    \/ EnvHotplug

Spec == Init /\ [][Next]_vars

\* the throttle controller after construction; the ceilings of the cores are
\* at the hardware maximum, or core 1's is one step below it
InitFreq ==
    /\ now = 0
    /\ sel = "cpu_freq"
    /\ faulted = FALSE
    /\ caller = CallerInit
    /\ lastOp = NoOp
    /\ cpu = CPUInit
    /\ mem = MemoryInit
    /\ disk = DiskInit
    /\ net = NetworkInit
    /\ thermal = ThermalInit
    /\ availableMB = MaxAvailMB
    /\ chunks = <<>>
    /\ dirFiles = {OtherFile}
    /\ qdisc = [tc |-> TRUE, rules |-> {}]
    /\ sysfs \in {SysfsInit(Cores, FALSE),
                  [SysfsInit(Cores, FALSE) EXCEPT ![MaxPath(1)] = getHardwareMaxFreq(1) - 1]}
    /\ hist = NoHist
    /\ freq = FreqInit
    /\ session = NoSession
    /\ mgr = ManagerInit
    /\ peer = NoPeer

NextFreq ==
    \/ FreqTick
    \/ \E frequency \in FreqRequests, cores \in CoreArgs, autoRestoreMs \in Windows :
         handle_cpu_freq_set(frequency, cores, autoRestoreMs)
    \/ CPUFreqManager_restore
    \/ CPUFreqManager_restore_join
    \/ CPUFreqManager_restore_locked
    \/ CPUFreqManager_workerFunction
    \/ EnvDrift

SpecFreq == InitFreq /\ [][NextFreq]_vars

\* the scheduler runs the worker thread whenever it can take a step, and the
\* clock keeps advancing
SpecFreqFair ==
    SpecFreq /\ WF_vars(CPUFreqManager_workerFunction) /\ WF_vars(FreqTick)

\* the orchestrator after construction: five idle generators
InitManager ==
    /\ now = 0
    /\ sel = "manager"
    /\ faulted = FALSE
    /\ caller = CallerInit
    /\ lastOp = NoOp
    /\ cpu = CPUInit
    /\ mem = MemoryInit
    /\ disk = DiskInit
    /\ net = NetworkInit
    /\ thermal = ThermalInit
    /\ availableMB = MaxAvailMB
    /\ chunks = <<>>
    /\ dirFiles = {OtherFile}
    /\ qdisc = [tc |-> TRUE, rules |-> {}]
    /\ sysfs = SysfsInit(Cores, FALSE)
    /\ hist = NoHist
    /\ freq = FreqInit
    /\ session = NoSession
    /\ mgr = ManagerInit
    /\ peer = NoPeer

NextManager ==
    \/ \E g \in Generators : StressManager_start(g)
    \/ \E g \in Generators : Stressor_workerFunction(g)
    \/ \E g \in Generators : StressManager_stop("stop", <<g>>)
    \/ StressManager_stop("stopAll", StopOrder)
    \/ StressManager_stop("destroy", StopOrder)
    \/ StressManager_stop_join
    \/ StressManager_stop_restore
    \/ StressManager_isAnyRunning
    \/ StressManager_getStatus

SpecManager == InitManager /\ [][NextManager]_vars

\* the memory and the thermal generator used directly, without the orchestrator
\* and its lock: a caller that also calls setConfig(), and a second thread
\* that calls start() while the first one does, or getStatus() during a run
NextDirect ==
    \/ \E config \in MemoryConfigs : MemoryStressor_start(config)
    \/ \E config \in MemorySetConfigs : MemoryStressor_setConfig(config)
    \/ MemoryStressor_workerFunction
    \/ MemoryStressor_stop
    \/ MemoryStressor_stop_join
    \/ MemoryStressor_stop_release
    \/ MemoryStressor_stop_free
    \/ \E config \in ThermalConfigs : ThermalStressor_start(config)
    \/ \E config \in RacingConfigs : ThermalStressor_start_racing(config)
    \/ ThermalStressor_workerFunction
    \/ ThermalStressor_getStatus
    \/ Tick

SpecDirect == Init /\ [][NextDirect]_vars

\* the controller with setMaxFrequency in steps, restore(), the worker, and
\* a second thread inside tick()
NextTick ==
    \/ FreqTick
    \/ \E frequency \in LimitFreqs, autoRestoreMs \in TickWindows :
         setMaxFrequency_stepwise(frequency, autoRestoreMs)
    \/ CPUFreqManager_restore
    \/ CPUFreqManager_restore_join
    \/ CPUFreqManager_restore_locked
    \/ CPUFreqManager_workerFunction
    \/ CPUFreqManager_tick

SpecTick == InitFreq /\ [][NextTick]_vars

\* the CPU generator alone, started with one worker and every load percentage,
\* or with up to two workers
NextLoad ==
    \/ \E config \in LoadConfigs \cup CPUConfigs : CPUStressor_start(config)
    \/ \E i \in DOMAIN cpu.workerThreads_ : CPUStressor_workerFunction(i)
    \/ CPUStressor_stop
    \/ CPUStressor_stop_join
    \/ Tick

SpecLoad == Init /\ [][NextLoad]_vars

\* the network generator alone, with every sign of the three shaping values
NextNet ==
    \/ \E config \in WideNetworkConfigs : NetworkStressor_start(config)
    \/ NetworkStressor_workerFunction
    \/ NetworkStressor_stop
    \/ NetworkStressor_stop_join
    \/ NetworkStressor_stop_remove
    \/ EnvTc
    \/ Tick

SpecNet == Init /\ [][NextNet]_vars

\* the memory generator alone, also with a floor below zero
NextMem ==
    \/ \E config \in WideMemoryConfigs : MemoryStressor_start(config)
    \/ MemoryStressor_workerFunction
    \/ MemoryStressor_stop
    \/ MemoryStressor_stop_join
    \/ MemoryStressor_stop_release
    \/ MemoryStressor_stop_free
    \/ EnvMemory
    \/ Tick

SpecMem == Init /\ [][NextMem]_vars

(* ------------------------- vocabulary of the properties ---------------- *)

\* every worker thread of the run has terminated
WorkersDone == \A i \in DOMAIN Workers : Workers[i].pc \in {"none", "done"}

\* the last call that returned was a stop() and no call is in progress
StopHasReturned == lastOp.op = "stop" /\ lastOp.gen = sel /\ caller.pc = "idle"

\* the governor and ceiling files of the cores
FreqPaths == {GovPath(c) : c \in Cores} \cup {MaxPath(c) : c \in Cores}

\* no chunk of the run is still held: every chunk has been released
NoChunkHeld == \A c \in DOMAIN chunks : chunks[c] >= 1

\* no temporary file of the run is in the test directory
NoTempFile == \A n \in 0..(MaxFiles + 1) : TempFile(n) \notin dirFiles

\* none of the generator's shaping rules is on the interface
NoOwnRule == qdisc.rules \cap OwnRules = {}

\* every governor and ceiling reads as it did when the run started
FreqAsBeforeStart == \A p \in FreqPaths : sysfs[p] = hist.pre.sysfs[p]

\* what the selected generator perturbs is back as it was before the run
Restored ==
    CASE sel = "cpu" -> TRUE
      [] sel = "memory" -> NoChunkHeld
      [] sel = "disk_io" -> NoTempFile
      [] sel = "network" -> NoOwnRule
      [] sel = "thermal" -> FreqAsBeforeStart

\* the run ended by expiry: the worker left its loop with the flag still set,
\* stop() was never called, and every worker has terminated
EndedByExpiry ==
    /\ hist.started /\ hist.expired /\ ~hist.stopCalled
    /\ WorkersDone

(* ------------------------------ C1 ------------------------------------- *)

\* C1: when a run ends by expiry of its duration and stop() is never called,
\* every resource the run perturbed is returned to its pre-start state: the
\* thermal governor and frequency ceiling, the memory allocations, the disk
\* temporary files, the network shaping rules.  Once the workers have
\* terminated nothing else acts, so the state then reached is the final one.
C1_ExpiryRestoresResources == EndedByExpiry => Restored

(* ------------------------------ C2 ------------------------------------- *)

\* the thermal snapshot was written back: every saved path whose write did not
\* fail reads the saved value
SnapshotWrittenBack ==
    \A p \in DOMAIN lastOp.wrote \ lastOp.failed : sysfs[p] = lastOp.wrote[p]

\* C2: when stop() returns (single caller, stop() called at any point of a
\* run, also racing with expiry) the running flag is false, all workers have
\* terminated and their handles are joined, and restoration is complete: the
\* memory allocation set is empty and its chunks released, the rules-applied
\* flag is false, the run's temporary files are deleted, the thermal snapshot
\* has been written back and emptied.
C2_StopReturnsRestored ==
    StopHasReturned =>
        /\ ~Gen.running_
        /\ WorkersDone /\ ~AnyJoinable(Workers)
        /\ mem.allocations_ = <<>> /\ mem.allocatedBytes_ = 0 /\ NoChunkHeld
        /\ ~net.tcRulesApplied_
        /\ NoTempFile
        /\ thermal.originalSettings_ = <<>> /\ SnapshotWrittenBack

\* stop() has returned from a call made in the middle of a run that had
\* perturbed something: chunks were held, or a snapshot was taken
C2_Witness ==
    /\ StopHasReturned /\ hist.started /\ ~hist.expired /\ ~lastOp.fromIdle
    /\ \/ sel = "memory" /\ Len(chunks) >= 1
       \/ sel = "thermal" /\ DOMAIN lastOp.wrote # {}

(* ------------------------------ C3 ------------------------------------- *)

\* C3: thermal generator: after stop() has restored (no write-back failing),
\* every governor and every scaling_max_freq the run overwrote holds the value
\* it had immediately before the run started, also when the pre-start ceiling
\* was lower than the hardware maximum.
C3_StopRestoresPreStartValues ==
    (StopHasReturned /\ sel = "thermal" /\ hist.started /\ lastOp.failed = {}) =>
        \A p \in DOMAIN lastOp.wrote \cap FreqPaths : sysfs[p] = hist.pre.sysfs[p]

(* ------------------------------ C4 ------------------------------------- *)

\* a call of start() on the selected generator
StartCall ==
    CASE sel = "cpu" -> \E config \in CPUConfigs : CPUStressor_start(config)
      [] sel = "memory" -> \E config \in MemoryConfigs : MemoryStressor_start(config)
      [] sel = "disk_io" -> \E config \in DiskConfigs : DiskStressor_start(config)
      [] sel = "network" -> \E config \in NetworkConfigs : NetworkStressor_start(config)
      [] sel = "thermal" -> \E config \in ThermalConfigs : ThermalStressor_start(config)

\* a step that is a call of start(): start() moves neither the clock nor the
\* control thread's position inside stop()
StartStep == now' = now /\ caller' = caller /\ StartCall

\* C4: start(config) on a generator whose running flag is set returns false
\* and leaves the stored configuration, the start timestamp, the duration,
\* the counters, the snapshot and the worker threads exactly as they were
\* (and touches nothing outside the generator).
C4_StartWhileRunningRejected ==
    [][ (Gen.running_ /\ StartStep) =>
            /\ lastOp' = Returned("start", sel, FALSE)
            /\ UNCHANGED <<cpu, mem, disk, net, thermal, faulted,
                           availableMB, chunks, dirFiles, qdisc, sysfs>> ]_vars

\* a start() was rejected while a run with live workers was in progress
C4_Witness ==
    /\ lastOp = Returned("start", sel, FALSE)
    /\ Gen.running_ /\ ~WorkersDone /\ hist.started

(* ------------------------------ C5 ------------------------------------- *)

\* a step of a stop() call that was issued while the generator was idle
\* (only the steps of stop() change the control thread's position)
IdleStopStep ==
    /\ caller' # caller
    /\ IF caller.pc = "idle" THEN Idle(Gen, Workers) ELSE caller.fromIdle

\* C5 as stated: a stop() call issued while the generator is idle (before any
\* start, after a previous stop(), after expiry followed by stop()) writes no
\* system setting, removes no rule, deletes no file, frees no memory and
\* leaves all generator state unchanged.
C5_IdleStopChangesNothing ==
    [][ IdleStopStep =>
            UNCHANGED <<cpu, mem, disk, net, thermal,
                        availableMB, chunks, dirFiles, qdisc, sysfs>> ]_vars

\* C5, amended: a stop() call issued while the generator is idle writes no
\* system setting, removes no rule, frees no memory and leaves all generator
\* state unchanged; the only files it deletes are those the disk generator's
\* cleanup() sweeps from the configured test directory, the files whose name
\* contains "stress_" and ".tmp".
C5_IdleStopOnlySweepsTempNames ==
    [][ IdleStopStep =>
            /\ UNCHANGED <<cpu, mem, disk, net, thermal,
                           availableMB, chunks, qdisc, sysfs>>
            /\ dirFiles' \subseteq dirFiles
            /\ \A f \in dirFiles \ dirFiles' : sel = "disk_io" /\ IsTempName(f) ]_vars

\* a stop() issued on a generator that had finished a run and was idle again
\* has returned
C5_Witness == StopHasReturned /\ lastOp.fromIdle /\ hist.started

(* ------------------------------ C6 ------------------------------------- *)

\* C6: for the memory, disk, network and thermal generators the worker
\* reports stopped only after restoration: whenever a run has ended without
\* stop() and the running flag reads false, no chunk of the run is still
\* held, no shaping rule of the run is still applied, no temporary file of the
\* run remains and no thermal setting of the run is still overwritten.
C6_StoppedOnlyAfterRestoration ==
    (sel # "cpu" /\ hist.started /\ ~hist.stopCalled /\ ~Gen.running_) => Restored

(* ------------------------------ C7 ------------------------------------- *)

\* C7: after a run has ended by expiry and stop() was not called, a
\* subsequent start() begins a new run without faulting: it never overwrites
\* or destroys a joinable worker handle.
C7_StartAfterExpiryDoesNotFault == (hist.expired /\ ~hist.stopCalled) => ~faulted

(* ------------------------------ C8 ------------------------------------- *)

\* the duration of the current run has elapsed
DurationElapsed == now >= hist.startedAt + hist.duration

\* C8: for every accepted configuration (a CPU thread count of zero
\* included), once the duration has elapsed the running flag becomes false
\* with no stop(): when the duration has elapsed and no worker is left to
\* act, the flag is false.
C8_ExpiryClearsFlag ==
    (hist.started /\ ~hist.stopCalled /\ DurationElapsed /\ WorkersDone) => ~Gen.running_

(* ------------------------------ C9 ------------------------------------- *)

\* C9: absent stop(), no generator's running flag is false before the
\* duration has elapsed, also for a network run whose rule application fails
\* and for runs whose perturbation steps fail.
C9_NotStoppedBeforeDuration ==
    (hist.started /\ ~hist.stopCalled /\ ~DurationElapsed) => Gen.running_

(* ------------------------------ C10 ------------------------------------ *)

\* the memory run is over: its worker has finished its own release
MemoryRunOver == sel = "memory" /\ hist.started /\ mem.workerThread_.pc = "done"

\* every chunk has been released exactly once, the set is empty, the counter 0
AllReleasedOnce ==
    /\ \A c \in DOMAIN chunks : chunks[c] = 1
    /\ mem.allocations_ = <<>> /\ mem.allocatedBytes_ = 0

\* C10 as stated: memory generator, every way a run ends: each recorded chunk
\* is released exactly once (never twice, never zero times), a chunk is
\* released before the set that records it is cleared (so a chunk not yet
\* released is still in the set), and afterwards the set is empty and the
\* allocated-bytes counter is 0.
C10_ReleasedBeforeSetCleared ==
    /\ \A c \in DOMAIN chunks : chunks[c] <= 1
    /\ \A c \in DOMAIN chunks : chunks[c] = 0 => c \in Range(mem.allocations_)
    /\ MemoryRunOver => AllReleasedOnce

\* C10, amended: each recorded chunk is released exactly once (never twice,
\* never zero times); the set is emptied first, under the lock, into the
\* releasing thread's local list and the chunks are released afterwards, so a
\* chunk still in the set has not been released and a chunk not yet released
\* is in the set or in a releasing thread's local list; afterwards the set is
\* empty and the allocated-bytes counter is 0.
C10_ReleasedOnceAfterSetCleared ==
    /\ \A c \in DOMAIN chunks : chunks[c] <= 1
    /\ \A c \in Range(mem.allocations_) : chunks[c] = 0
    /\ \A c \in DOMAIN chunks :
         chunks[c] = 0 => c \in Range(mem.allocations_) \cup Range(mem.workerThread_.toFree)
                                \cup Range(caller.toFree)
    /\ MemoryRunOver => AllReleasedOnce

\* a run that allocated chunks is over and a stop() racing with it has returned
C10_Witness == MemoryRunOver /\ Len(chunks) >= 1 /\ StopHasReturned

(* ------------------------------ C11 ------------------------------------ *)

\* C11: network generator: after a run has ended, by stop() or by expiry, no
\* shaping rule added by the run remains on the interface, also when rule
\* application failed part-way (the htb root was added, its class or the
\* netem layer was not).
C11_NoRuleLeftAfterRun ==
    (sel = "network" /\ hist.started /\ (StopHasReturned \/ EndedByExpiry)) => NoOwnRule

(* ------------------------------ C12 ------------------------------------ *)

\* C12: network generator: a start() called while the tc tool is unavailable
\* (and no run is in progress) returns false; the running flag stays false, no
\* worker is spawned, no tc command is issued, and the stored configuration,
\* duration and rules-applied flag are unchanged.
C12_StartWithoutTcTouchesNothing ==
    [][ (sel = "network" /\ ~net.running_ /\ ~qdisc.tc /\ StartStep) =>
            /\ lastOp'.op = "start" /\ ~lastOp'.result
            /\ ~net'.running_
            /\ net'.workerThread_ = net.workerThread_
            /\ hist'.tc = hist.tc /\ qdisc' = qdisc
            /\ net'.config_ = net.config_
            /\ net'.durationMs_ = net.durationMs_
            /\ net'.tcRulesApplied_ = net.tcRulesApplied_
            /\ UNCHANGED faulted ]_vars

\* a start() was refused for want of tc after an earlier run had stored a
\* configuration and left a finished worker behind
C12_Witness ==
    /\ sel = "network" /\ ~qdisc.tc
    /\ lastOp.op = "start" /\ ~lastOp.result /\ lastOp.fromIdle
    /\ ~net.running_ /\ hist.started
    /\ net.config_ # DefaultNetworkConfig

(* ------------------------------ C13 ------------------------------------ *)

\* C13: network generator: on every start the worker issues the delete of the
\* interface's root qdisc before any add command, whether or not this
\* generator applied rules earlier.
C13_DeleteBeforeFirstAdd ==
    (sel = "network" /\ hist.started /\ \E i \in DOMAIN hist.tc : hist.tc[i] \in OwnRules)
        => hist.tc[1] = "del"

(* ------------------------------ C14 ------------------------------------ *)

\* C14: disk generator: after a run has ended, by stop() or by expiry, no
\* temp file the run created exists in the target directory, whichever step
\* of the write / read-back / delete cycle the worker was in when the run was
\* stopped.
C14_NoTempFileAfterRun ==
    (sel = "disk_io" /\ hist.started /\ (StopHasReturned \/ EndedByExpiry)) =>
        \A n \in 0..disk.workerThread_.fileCounter : TempFile(n) \notin dirFiles

\* stop() was called while the worker was about to create a file or held one
\* it had created and not yet deleted, and has returned
C14_Witness ==
    /\ sel = "disk_io" /\ hist.started /\ StopHasReturned
    /\ hist.stopAt \in {"open", "write", "read", "unlink"}
    /\ disk.workerThread_.fileCounter >= 1

(* --------------------- throttle controller properties ------------------ *)

\* restore(), called by the control thread, has returned
FreqRestoreReturned ==
    sel = "cpu_freq" /\ lastOp.op = "restore" /\ caller.pc = "idle"

\* ... and it was restore() that ended the session, every write-back succeeding
SessionRestored ==
    FreqRestoreReturned /\ ~lastOp.fromIdle /\ lastOp.failed = {}

\* the core's ceiling reads as it did before the first setLimit of the session
CeilingAsBeforeSession(c) == sysfs[MaxPath(c)] = session.pre[MaxPath(c)]

(* ------------------------------ C15 ------------------------------------ *)

\* C15: throttle controller: after setLimit(F1), setLimit(F2) on the same
\* target cores, all writes succeeding, and restore(), every target core's
\* ceiling equals the value it had before setLimit(F1).
C15_RestoreToFirstSnapshot ==
    (SessionRestored /\ session.n = 2 /\ session.same /\ session.ok) =>
        \A c \in session.cores : CeilingAsBeforeSession(c)

\* two setLimit calls on the same cores succeeded and restore() has returned
C15_Witness ==
    /\ SessionRestored /\ session.n = 2 /\ session.same /\ session.ok
    /\ Len(lastOp.wrote) = Cardinality(session.cores)

(* ------------------------------ C16 ------------------------------------ *)

\* C16: throttle controller: within a limiting session no core's ceiling is
\* overwritten unless its pre-session value is in the snapshot; so after
\* setLimit(F1, cores = A), setLimit(F2, cores = B) and restore(), all writes
\* succeeding, every core of A and B has its pre-session ceiling.
C16_SnapshotCoversEveryWrittenCore ==
    /\ (sel = "cpu_freq" /\ freq.isLimited_ /\ session.open /\ session.ok) =>
           \A c \in session.cores : MaxPath(c) \in DOMAIN freq.originalSettings_
    /\ (SessionRestored /\ session.ok) =>
           \A c \in session.cores : CeilingAsBeforeSession(c)

(* ------------------------------ C17 ------------------------------------ *)

\* a setLimit with an auto-restore window succeeded and the control caller has
\* made no call since
AutoRestoreArmed ==
    /\ sel = "cpu_freq" /\ ~faulted /\ caller.pc = "idle"
    /\ freq.isLimited_ /\ freq.autoRestoreMs_ > 0
    /\ ~session.touched

\* the worker has ended the session and returned
AutoRestored ==
    ~faulted /\ ~freq.isLimited_ /\ ~freq.workerRunning_ /\ freq.workerThread_.pc = "done"

\* C17: throttle controller: after a successful setLimit with an auto-restore
\* window, and without a further call of the control caller, the worker
\* eventually restores, leaves limited = false and terminates normally,
\* without deadlock or fault.
C17_AutoRestoreCompletes ==
    AutoRestoreArmed ~> (AutoRestored \/ session.touched)

(* ------------------------------ C18 ------------------------------------ *)

\* the step in which restore(), called by the control thread, runs its locked
\* part and returns
RestoreReturnStep ==
    sel = "cpu_freq" /\ caller.pc = "locked" /\ caller'.pc = "idle"

\* the writes of a sequence to path p
WritesTo(writes, p) == {i \in DOMAIN writes : writes[i].path = p}

\* C18: throttle controller: restore() when not limiting returns true and
\* writes no ceiling; restore() during a limiting session writes each
\* snapshotted value exactly once and leaves limited = false, target 0,
\* auto-restore window 0, an empty snapshot, an empty target-core set and no
\* running worker.
C18_RestoreIdempotentAndComplete ==
    [][ RestoreReturnStep =>
          /\ lastOp'.op = "restore" /\ lastOp'.result
          /\ IF ~freq.isLimited_
             THEN lastOp'.wrote = <<>> /\ sysfs' = sysfs /\ freq' = freq
             ELSE LET snapshot == freq.originalSettings_ IN
                  /\ \A p \in DOMAIN snapshot :
                       /\ Cardinality(WritesTo(lastOp'.wrote, p)) = 1
                       /\ \A i \in WritesTo(lastOp'.wrote, p) :
                            lastOp'.wrote[i].value = snapshot[p]
                  /\ \A i \in DOMAIN lastOp'.wrote : lastOp'.wrote[i].path \in DOMAIN snapshot
                  /\ \A p \in DOMAIN sysfs :
                       sysfs'[p] = IF p \in DOMAIN snapshot \ lastOp'.failed
                                   THEN snapshot[p] ELSE sysfs[p]
                  /\ ~freq'.isLimited_
                  /\ freq'.targetMaxFreq_ = 0
                  /\ freq'.autoRestoreMs_ = 0
                  /\ freq'.originalSettings_ = <<>>
                  /\ freq'.targetCores_ = {}
                  /\ ~freq'.workerRunning_
                  /\ freq'.workerThread_.pc = "done" /\ ~freq'.workerThread_.joinable ]_vars

\* restore() ended a session whose snapshot held both cores, and wrote both
\* ceilings back
C18_Witness ==
    /\ FreqRestoreReturned /\ ~lastOp.fromIdle
    /\ Len(lastOp.wrote) = 2
    /\ ~freq.isLimited_

(* ------------------------------ C19 ------------------------------------ *)

\* C19: throttle controller: when a setLimit call writes several cores and one
\* write fails while another succeeds, the call returns false and a following
\* restore() writes the pre-call ceilings of the written cores back.
C19_RestoreAfterPartialFailure ==
    (FreqRestoreReturned /\ lastOp.failed = {} /\ session.n = 1 /\ session.partialOk # {}) =>
        \A c \in session.partialOk : CeilingAsBeforeSession(c)

(* ------------------------------ C20 ------------------------------------ *)

\* a setLimit request that names a frequency of zero or less
InvalidRequestStep ==
    /\ now' = now /\ caller' = caller
    /\ \E frequency \in {f \in FreqRequests : f <= 0}, cores \in CoreArgs,
          autoRestoreMs \in Windows :
         handle_cpu_freq_set(frequency, cores, autoRestoreMs)

\* C20: throttle controller: a setLimit request with a target frequency of
\* zero or less is answered with failure, and no ceiling is written, no
\* snapshot taken, no worker started and no controller state changed.
C20_InvalidFrequencyRejected ==
    [][ (sel = "cpu_freq" /\ InvalidRequestStep) =>
            /\ lastOp' = Returned("setLimit", "cpu_freq", FALSE)
            /\ UNCHANGED <<freq, sysfs, session, faulted>> ]_vars

\* a request was refused for its frequency while a session was limiting
C20_Witness ==
    /\ sel = "cpu_freq" /\ lastOp = Returned("setLimit", "cpu_freq", FALSE)
    /\ freq.isLimited_ /\ freq.workerRunning_

(* ------------------------------ C21 ------------------------------------ *)

\* the run applied its settings with forceAllCoresOnline set
ForcedCoresOnline ==
    /\ thermal.config_.forceAllCoresOnline
    /\ DOMAIN lastOp.wrote # {}

\* C21 (as stated): stop() writes back governors and frequency ceilings only
\* and never writes the online file of any core.
C21_StopNeverWritesOnline ==
    (sel = "thermal" /\ StopHasReturned) =>
        \A p \in DOMAIN lastOp.wrote : p[1] # "online"

\* C21 (amended): after a run that forced the cores online, stop() writes the
\* saved value of every non-primary core's online file back, so each such
\* core whose write-back succeeded is in the state the run found it in.
C21_StopWritesOnlineBack ==
    (sel = "thermal" /\ StopHasReturned /\ ForcedCoresOnline) =>
        \A c \in Cores \ {0} :
            /\ OnlinePath(c) \in DOMAIN lastOp.wrote
            /\ OnlinePath(c) \notin lastOp.failed =>
                   sysfs[OnlinePath(c)] = lastOp.wrote[OnlinePath(c)]

\* a core that was offline before the run and forced online by it is offline
\* again when stop() has returned
C21_Witness ==
    /\ sel = "thermal" /\ StopHasReturned /\ ForcedCoresOnline
    /\ \E c \in Cores \ {0} :
         /\ hist.pre.sysfs[OnlinePath(c)] = "0"
         /\ lastOp.wrote[OnlinePath(c)] = "0"
         /\ OnlinePath(c) \notin lastOp.failed
         /\ sysfs[OnlinePath(c)] = "0"

(* ------------------------------ C22 ------------------------------------ *)

\* thread a is inside a generator's stop(), at the join of its worker or at
\* its restore path
InsideStop == mgr.a.pc \in {"join", "restore"}

\* C22: the orchestrator's lock is not held while a generator's stop() joins
\* its worker or restores, so a status call for one generator never waits at
\* the lock while another generator's stop() is at its join or its restore.
C22_StatusNotBlockedByStop ==
    ~(/\ sel = "manager" /\ InsideStop /\ mgr.mutex_ = "a"
      /\ mgr.b.pc = "lock" /\ mgr.b.gen # Head(mgr.a.todo))

(* ------------------------------ C24 ------------------------------------ *)

\* a step in which isAnyRunning() returns
IsAnyRunningStep ==
    /\ mgr'.last.op = "isAnyRunning" /\ mgr'.last # mgr.last
    /\ mgr'.gens = mgr.gens /\ mgr'.b = mgr.b

\* C24: when stopAll() returns, all five generators have running_ false and
\* have executed their restore paths; isAnyRunning() evaluated next returns
\* false; and isAnyRunning() returns true exactly when at least one
\* generator's running flag is true.
C24_StopAllStopsEveryGenerator ==
    [][sel = "manager" =>
         /\ mgr'.last.op = "stopAll" =>
                \A g \in Generators : ~mgr'.gens[g].running_ /\ g \in mgr'.restored
         /\ (mgr.last.op = "stopAll" /\ IsAnyRunningStep) => ~mgr'.last.result
         /\ IsAnyRunningStep =>
                (mgr'.last.result <=> \E g \in Generators : mgr.gens[g].running_)]_vars

\* stopAll() has returned after as many runs as the orchestrator accepts were
\* started, and no worker handle is joinable any more
C24_Witness ==
    /\ sel = "manager" /\ mgr.last.op = "stopAll" /\ mgr.starts = MaxStarts
    /\ mgr.restored = Generators
    /\ \A g \in Generators : mgr.gens[g].thread = "none"

(* ------------------------------ C27 ------------------------------------ *)

\* C27: when the destruction of the orchestrator completes, no generator's
\* worker handle is still joinable and no perturbation remains.
C27_DestructionLeavesNothing ==
    (sel = "manager" /\ mgr.a.pc = "destroyed") =>
        \A g \in Generators :
            mgr.gens[g].thread = "none" /\ mgr.gens[g].applied = "none"

(* ------------------------------ C23 ------------------------------------ *)

\* C23: a component's internal lock is never held while a control file is
\* written, hence a status() call on the component never waits at the lock
\* for such a write to finish.
C23_StatusNeverWaitsForWrite ==
    ~(/\ sel = "thermal" /\ peer.pc = "lock"
      /\ thermal.mutex_ = "worker" /\ thermal.workerThread_.pc = "cap")

(* ------------------------------ C26 ------------------------------------ *)

\* what status() of the generator under test returns in the current state
Status == getStatus(sel, Gen)

\* the time since the start of the run
Elapsed == now - Gen.startTimeMs_

\* C26: status() of an idle generator returns running=false, remaining time 0
\* and no counters; while running it returns remaining = max(0, duration -
\* elapsed), so 0 <= remaining <= duration in every state, and the remaining
\* time never increases during a run.
C26_StatusRemainingTime ==
    /\ [](sel \in Generators =>
            /\ ~Gen.running_ =>
                   /\ ~Status.isRunning /\ Status.remainingTimeMs = 0
                   /\ Status.data = {}
            /\ Gen.running_ =>
                   /\ Status.isRunning
                   /\ Status.remainingTimeMs =
                          (IF Gen.durationMs_ - Elapsed > 0
                           THEN Gen.durationMs_ - Elapsed ELSE 0)
            /\ 0 <= Status.remainingTimeMs
            /\ Status.remainingTimeMs <= Gen.durationMs_)
    /\ [][(sel \in Generators /\ Gen.running_ /\ Gen'.running_) =>
              Status'.remainingTimeMs <= Status.remainingTimeMs]_vars

\* a running generator whose worker slept through the deadline: the
\* difference is negative and status() reports 0
C26_Witness ==
    /\ sel \in Generators /\ Gen.running_
    /\ Gen.durationMs_ - Elapsed < 0 /\ Status.remainingTimeMs = 0

(* ------------------------------ C25 ------------------------------------ *)

\* C25: the stored run configuration does not change while the running flag
\* is true: no public operation (start, stop, status or setConfig) alters it
\* between a successful start and the end of the run.
C25_ConfigFixedDuringRun ==
    [][(sel = "memory" /\ mem.running_) => mem'.config_ = mem.config_]_vars

(* ------------------------------ C28 ------------------------------------ *)

\* C28: when two start(config) calls race on the same idle generator, the
\* stored configuration is that of the call that returned true: a call that
\* has not returned true has not replaced the configuration of a run that
\* the other call started.
C28_RacingStartKeepsWinnerConfig ==
    (sel = "thermal" /\ peer.pc \in {"mark", "spawn"} /\ peer.wasRunning) =>
        peer.replaced = peer.config

(* ------------------------------ C29 ------------------------------------ *)

\* C29: once restore() has returned and no later setLimit has been issued, no
\* core's ceiling is written with a throttle target, also not by a tick()
\* that was in progress when restore() began.
C29_NoReapplyAfterRestore ==
    [][(sel = "cpu_freq" /\ lastOp.op = "restore" /\ lastOp'.op = "restore") =>
          \A c \in Cores :
              \/ sysfs'[MaxPath(c)] = sysfs[MaxPath(c)]
              \/ sysfs'[MaxPath(c)] \notin LimitFreqs]_vars

(* ------------------------------ C30 ------------------------------------ *)

\* the worker's tick() finds the window elapsed and calls restore()
WorkerTriggerStep ==
    /\ freq.workerThread_.pc = "tick" /\ freq.isLimited_ /\ WindowElapsed(freq)
    /\ faulted' # faulted \/ freq'.workerThread_.pc # freq.workerThread_.pc

\* C30: tick() triggers the auto-restore only when the window has elapsed
\* since the timestamp that was stored together with that window: it never
\* combines the window of one setLimit with the timestamp of another.
C30_TriggerUsesOnePair ==
    [][sel = "cpu_freq" =>
         /\ WorkerTriggerStep =>
                <<freq.autoRestoreMs_, freq.limitStartTimeMs_>> \in session.pairs
         /\ peer'.pc = "restore" => peer'.legit]_vars

(* --- C40 --- *)

\* the worker has computed its locals (it is past its first step)
SleepComputed(t) == t.pc \in {"loop", "mark", "done"}

\* C40: CPU generator: the per-cycle sleep a worker computes for a load
\* percentage L is, for 1 <= L <= 99, floor((100 - L) * 10 / L) ms against the
\* 10 ms busy window, so that the busy fraction 10 / (10 + sleep) is at least
\* L / 100; for L >= 100 it is 0; and for L <= 0 the divisor is 1 (the sleep is
\* (100 - L) * 10), so no division by zero takes place.
C40_SleepMatchesLoad ==
    \A i \in DOMAIN cpu.workerThreads_ :
        LET t == cpu.workerThreads_[i]
            L == cpu.config_.loadPercentage
        IN  SleepComputed(t) =>
              /\ t.sleepMs >= 0
              /\ (L >= 1 /\ L <= 99) =>
                   /\ t.sleepMs * L <= (100 - L) * workMs
                   /\ (t.sleepMs + 1) * L > (100 - L) * workMs
                   /\ workMs * 100 >= L * (workMs + t.sleepMs)
              /\ L >= 100 => t.sleepMs = 0
              /\ L <= 0 => t.sleepMs = (100 - L) * workMs

\* a worker that computed a sleep for a load whose quotient is not whole
\* (L = 30: 700 / 30), and one with a load of zero or less
C40_Witness ==
    \E i \in DOMAIN cpu.workerThreads_ :
        /\ SleepComputed(cpu.workerThreads_[i])
        /\ cpu.config_.loadPercentage = 30
        /\ cpu.workerThreads_[i].sleepMs = 23

(* --- C34 --- *)

\* a step of the CPU generator that is not a call of start(): start() is the
\* only operation that reports through lastOp with op "start"
NotAStart == ~(lastOp'.op = "start" /\ lastOp' # lastOp)

\* C34: CPU generator: an accepted start with thread count N >= 1 spawns
\* exactly N workers; once any worker has left its loop and executed the
\* markStopped() that follows it, the running flag is false; a worker that
\* checks the flag after that leaves its loop at that check; and no step of a
\* worker (nor any step other than a start) sets the flag true again.
C34_FirstLeaverStopsAll ==
    /\ [](sel = "cpu" =>
            \A i \in DOMAIN cpu.workerThreads_ :
                cpu.workerThreads_[i].pc = "done" => ~cpu.running_)
    /\ [][ sel = "cpu" =>
            /\ (lastOp' = Returned("start", "cpu", TRUE) /\ lastOp' # lastOp
                   /\ cpu'.config_.threadCount >= 1) =>
                 /\ Len(cpu'.workerThreads_) = cpu'.config_.threadCount
                 /\ \A i \in DOMAIN cpu'.workerThreads_ :
                        cpu'.workerThreads_[i] = NewThread
            /\ NotAStart =>
                 /\ cpu'.running_ => cpu.running_
                 /\ Len(cpu'.workerThreads_) <= Len(cpu.workerThreads_)
            /\ \A i \in DOMAIN cpu.workerThreads_ :
                 (/\ cpu.workerThreads_[i].pc = "loop"
                  /\ ~cpu.running_
                  /\ CPUStressor_workerFunction(i)) =>
                     cpu'.workerThreads_[i].pc = "mark" ]_vars

\* a run of two workers that nobody stopped: one worker has seen the deadline
\* pass and marked the run stopped, the other is still inside its loop
C34_Witness ==
    /\ sel = "cpu" /\ Len(cpu.workerThreads_) = 2 /\ cpu.config_.threadCount = 2
    /\ cpu.workerThreads_[1].pc = "done"
    /\ cpu.workerThreads_[2].pc = "loop"
    /\ ~cpu.running_ /\ ~hist.stopCalled

(* --- C38 --- *)

\* applyTcRules() has returned true in this run and the worker waits for the
\* end of the run
RulesApplied == sel = "network" /\ net.workerThread_.pc = "wait"

\* the add commands issued so far in this run
AddsIssued == {hist.tc[k] : k \in DOMAIN hist.tc} \cap OwnRules

\* C38: Network generator: after applyTcRules() has succeeded, for every
\* configuration the htb root qdisc and its class have been added by it iff
\* bandwidth > 0; the netem qdisc has been added iff latency > 0 or loss > 0,
\* under class 1:12 iff bandwidth > 0 and as the interface root otherwise; and
\* when bandwidth, latency and loss are all 0 no add command was issued and
\* the rules-applied flag is nevertheless true.
C38_PipelineFollowsConfig ==
    RulesApplied =>
        LET c == net.config_
            shaped == c.bandwidthLimitKbps > 0
            delayed == c.latencyMs > 0 \/ c.packetLossPercent > 0
        IN  /\ net.tcRulesApplied_
            /\ ("htb" \in AddsIssued) <=> shaped
            /\ ("class" \in AddsIssued) <=> shaped
            /\ ("netem" \in AddsIssued \/ "netem_root" \in AddsIssued) <=> delayed
            /\ ("netem" \in AddsIssued) <=> (delayed /\ shaped)
            /\ ("netem_root" \in AddsIssued) <=> (delayed /\ ~shaped)
            /\ AddsIssued \subseteq qdisc.rules
            /\ (c.bandwidthLimitKbps = 0 /\ c.latencyMs = 0 /\ c.packetLossPercent = 0)
                  => AddsIssued = {}

\* a successful application with delay but no bandwidth cap: netem is the root
C38_Witness ==
    /\ RulesApplied
    /\ net.config_.bandwidthLimitKbps = 0 /\ net.config_.latencyMs = 1
    /\ "netem_root" \in qdisc.rules

(* --- C32 --- *)

\* C32: for every generator, whenever start(config) returns false (already
\* running, tc unavailable, test directory missing and not creatable), the
\* stored configuration, the running flag, the duration and the counters are
\* exactly as they were before the call.
C32_FailedStartChangesNothing ==
    [][ (StartStep /\ lastOp'.op = "start" /\ ~lastOp'.result) =>
            UNCHANGED <<cpu, mem, disk, net, thermal>> ]_vars

(* --- C36 --- *)

\* a step of the memory worker that polls the availability in the given phase:
\* the loop condition held and getAvailableMemoryMB() was called
WorkerPoll(phase) ==
    /\ sel = "memory"
    /\ mem.workerThread_.pc = phase
    /\ LoopContinues(mem, mem.workerThread_.endTime)
    /\ MemoryStressor_workerFunction

\* the availability counter could not be read at the poll: /proc/meminfo did
\* not open
Unreadable(t) == t.availableMB = 0 - 1

\* C36: Memory generator: a phase-1 poll allocates a chunk only when the
\* availability it read is above the configured floor, and phase 1 ends at the
\* first poll whose availability is at or below the floor or could not be
\* read; a phase-2 poll allocates at most one chunk and only when the
\* availability exceeds floor + one chunk size; phase 1 is never re-entered
\* within a run.
C36_PhasesFollowAvailability ==
    [][ LET t == mem.workerThread_
            u == mem'.workerThread_
        IN  /\ WorkerPoll("phase1") =>
                 /\ u.ptr = "chunk" => u.availableMB > t.targetFreeMB
                 /\ (u.availableMB <= t.targetFreeMB \/ Unreadable(u)) =>
                        (u.pc = "phase2" /\ u.ptr = "none")
            /\ WorkerPoll("phase2") =>
                 /\ Len(mem'.allocations_) <= Len(mem.allocations_) + 1
                 /\ u.ptr # "none" => u.availableMB > t.targetFreeMB + t.chunkSizeMB
            /\ (sel = "memory" /\ u.pc = "phase1") => t.pc \in {"init", "phase1"} ]_vars

(* --- C37 --- *)

\* a poll at which allocateChunk() returned nullptr
FailedAllocation(phase) == WorkerPoll(phase) /\ mem'.workerThread_.ptr = "null"

\* C37: Memory generator: a failed chunk allocation does not end the run (the
\* running flag and the worker's phase are as before) and adds nothing to the
\* allocation set or to the allocated-bytes counter; and every phase-1 poll of
\* an active run that finds the availability above the floor attempts an
\* allocation, also after earlier failures.
C37_AllocationFailureNotFatal ==
    [][ /\ \A phase \in {"phase1", "phase2"} :
              FailedAllocation(phase) =>
                  /\ mem'.running_ = mem.running_
                  /\ mem'.workerThread_.pc = phase
                  /\ mem'.allocations_ = mem.allocations_
                  /\ mem'.allocatedBytes_ = mem.allocatedBytes_
                  /\ chunks' = chunks
        /\ (WorkerPoll("phase1")
              /\ mem'.workerThread_.availableMB > mem.workerThread_.targetFreeMB) =>
                 mem'.workerThread_.ptr \in {"null", "chunk"} ]_vars

\* a phase-1 allocation has succeeded at the poll after a failed one: the
\* worker holds a chunk while the set is still short of the bound of the run,
\* and the last attempt failed again with the run still active
C37_Witness ==
    /\ sel = "memory" /\ mem.running_
    /\ mem.workerThread_.pc = "phase1" /\ mem.workerThread_.ptr = "null"
    /\ Len(mem.allocations_) = 1 /\ mem.allocatedBytes_ = 1

(* --- C39 --- *)

\* the thermal worker is at its loop test and the test succeeds: the flag is
\* set and the deadline has not passed
ForcingPoll ==
    /\ sel = "thermal" /\ thermal.workerThread_.pc = "loop"
    /\ thermal.running_ /\ now < thermal.workerThread_.endTime
    /\ thermal.config_.forceAllCoresOnline

\* the thermal worker has seen its loop test fail, or is about to see it fail
WorkerPastLoop ==
    /\ sel = "thermal"
    /\ \/ thermal.workerThread_.pc \in {"mark", "done"}
       \/ /\ thermal.workerThread_.pc = "loop"
          /\ ~(thermal.running_ /\ now < thermal.workerThread_.endTime)

\* C39: in a thermal run that forces all cores online, a poll of the worker
\* writes "1" to the online file of every non-primary core it finds offline and
\* of no other core, so that with writable files every non-primary core is
\* online after the poll; the online file of core 0 is never written and never
\* saved by any operation; and a worker whose loop test fails (flag cleared or
\* deadline passed) writes no online file from then on
C39_PollReonlinesOfflineCores ==
    /\ [](0 \notin hist.onlineWrites
          /\ OnlinePath(0) \notin DOMAIN thermal.originalSettings_
          /\ OnlinePath(0) \notin DOMAIN sysfs)
    /\ [][ /\ (ForcingPoll /\ ThermalStressor_workerFunction)
              => /\ \A c \in Cores \ {0} :
                      /\ sysfs[OnlinePath(c)] # "1" => c \in hist'.onlineWrites
                      /\ sysfs[OnlinePath(c)] = "1" => sysfs'[OnlinePath(c)] = "1"
                      /\ thermal.workerThread_.writable => sysfs'[OnlinePath(c)] = "1"
                 /\ \A p \in DOMAIN sysfs : p[1] # "online" => sysfs'[p] = sysfs[p]
           /\ (WorkerPastLoop /\ ThermalStressor_workerFunction)
              => /\ sysfs' = sysfs
                 /\ hist'.onlineWrites = hist.onlineWrites ]_vars

\* a forcing run whose last poll counted an offline core and left every
\* non-primary core online
C39_Witness ==
    /\ sel = "thermal" /\ thermal.running_ /\ thermal.workerThread_.pc = "loop"
    /\ thermal.config_.forceAllCoresOnline /\ thermal.workerThread_.writable
    /\ thermal.coresOnline_ >= 1 /\ thermal.coresOnline_ < thermal.totalCores_
    /\ \A c \in Cores \ {0} : sysfs[OnlinePath(c)] = "1"
    /\ hist.onlineWrites = Cores \ {0}

(* The two components that write saved sysfs values back, each on its own: *)
(* the thermal generator called directly, or the throttle controller.       *)

NextRestore ==
    \/ sel = "thermal" /\ Tick
    \/ \E config \in ThermalConfigs : ThermalStressor_start(config)
    \/ ThermalStressor_workerFunction
    \/ ThermalStressor_stop
    \/ ThermalStressor_stop_join
    \/ ThermalStressor_stop_restore
    \/ EnvHotplug
    \/ FreqTick
    \/ \E frequency \in FreqRequests, cores \in CoreArgs, autoRestoreMs \in Windows :
         handle_cpu_freq_set(frequency, cores, autoRestoreMs)
    \/ CPUFreqManager_restore
    \/ CPUFreqManager_restore_join
    \/ CPUFreqManager_restore_locked
    \/ CPUFreqManager_workerFunction
    \/ EnvDrift

SpecRestore == ((Init /\ sel = "thermal") \/ InitFreq) /\ [][NextRestore]_vars

(* --- C33 --- *)

\* the step in which the thermal stop() runs restoreSettings() and returns
ThermalRestoreStep ==
    sel = "thermal" /\ caller.pc = "restore" /\ caller'.pc = "idle"

\* the step in which a restore() of the throttle controller, called by the
\* control thread or by the worker's tick(), ends a limiting session
SessionEndStep ==
    sel = "cpu_freq" /\ freq.isLimited_ /\ ~freq'.isLimited_

\* C33: a thermal stop() or a throttle restore() in which one write-back fails
\* still writes every other entry of the snapshot, leaves the failed file as it
\* was, clears the snapshot and leaves the component idle (running_ false,
\* isLimited_ false, no target); and a stop() that finds the snapshot cleared,
\* or a restore() or tick() that finds isLimited_ false, writes nothing, so the
\* value whose write failed is not written again
C33_FailedWriteBackStillClears ==
    [][ /\ ThermalRestoreStep =>
             LET snapshot == thermal.originalSettings_ IN
             /\ \A p \in DOMAIN sysfs :
                  sysfs'[p] = IF p \in DOMAIN snapshot \ lastOp'.failed
                              THEN snapshot[p] ELSE sysfs[p]
             /\ thermal'.originalSettings_ = <<>>
             /\ ~thermal'.running_
             /\ lastOp'.op = "stop" /\ lastOp'.result
        /\ (RestoreReturnStep /\ freq.isLimited_) =>
             LET snapshot == freq.originalSettings_ IN
             \A p \in DOMAIN sysfs :
                  sysfs'[p] = IF p \in DOMAIN snapshot \ lastOp'.failed
                              THEN snapshot[p] ELSE sysfs[p]
        /\ SessionEndStep =>
             /\ \A p \in DOMAIN sysfs :
                  sysfs'[p] # sysfs[p] =>
                      p \in DOMAIN freq.originalSettings_
                      /\ sysfs'[p] = freq.originalSettings_[p]
             /\ Cardinality({p \in DOMAIN freq.originalSettings_ :
                               sysfs'[p] # freq.originalSettings_[p]}) <= 1
             /\ freq'.originalSettings_ = <<>>
             /\ freq'.targetCores_ = {}
             /\ freq'.targetMaxFreq_ = 0
        /\ (sel = "cpu_freq" /\ ~freq.isLimited_
            /\ (RestoreReturnStep \/ CPUFreqManager_workerFunction)) =>
             /\ sysfs' = sysfs
             /\ freq'.originalSettings_ = freq.originalSettings_
             /\ ~freq'.isLimited_ ]_vars

\* a thermal stop() returned after a write-back of at least two saved values
\* of which one failed: another file holds its saved value again, the snapshot
\* is empty and the generator idle
C33_Witness ==
    /\ sel = "thermal" /\ lastOp.op = "stop" /\ caller.pc = "idle"
    /\ lastOp.failed # {}
    /\ Cardinality(DOMAIN lastOp.wrote) >= 2
    /\ ~thermal.running_ /\ thermal.originalSettings_ = <<>>
    /\ \E p \in DOMAIN lastOp.wrote \ lastOp.failed :
         sysfs[p] = lastOp.wrote[p] /\ hist.pre.sysfs[p] = lastOp.wrote[p]
    /\ \E p \in lastOp.failed : sysfs[p] # lastOp.wrote[p]

(* --- C35 --- *)

\* tick(), called by the second thread, runs its re-apply loop and returns
ReapplyStep ==
    sel = "cpu_freq" /\ peer.pc = "reapply" /\ peer'.pc = "none"

\* C35: a tick() that runs its re-apply loop while the controller is limiting
\* and the auto-restore window has not elapsed writes the target ceiling
\* (targetMaxFreq_) to exactly those cores of targetCores_ whose ceiling
\* differs from it, and leaves every other file and the controller's state as
\* they were; a tick() that finds isLimited_ false changes nothing.
C35_TickRewritesOnlyDriftedTargets ==
    [][ /\ (ReapplyStep /\ freq.isLimited_ /\ ~WindowElapsed(freq)) =>
             /\ \A p \in DOMAIN sysfs :
                  sysfs'[p] = IF /\ p \in {MaxPath(c) : c \in freq.targetCores_}
                                 /\ sysfs[p] # freq.targetMaxFreq_
                              THEN freq.targetMaxFreq_ ELSE sysfs[p]
             /\ freq' = freq
        /\ (sel = "cpu_freq" /\ peer.pc = "none" /\ ~freq.isLimited_
            /\ CPUFreqManager_tick) =>
             UNCHANGED <<sysfs, freq, peer, session>> ]_vars

(* --- C31 --- *)

\* the worker of the throttle controller, inside its own tick(), reaches
\* workerThread_.join() in stopWorker(): the join of a thread by itself
SelfJoinStep ==
    /\ sel = "cpu_freq" /\ freq.workerThread_.pc = "tick"
    /\ ~faulted /\ faulted'

\* C31: the worker handle of the throttle controller is never joined by the
\* worker thread itself, and never by the control thread's restore() and
\* another thread's tick() at the same time.
C31_NoSelfJoinNoDoubleJoin ==
    [][ /\ ~SelfJoinStep
        /\ sel = "cpu_freq" => ~(caller'.pc = "join" /\ peer'.pc = "join") ]_vars

====
